---- MODULE Spec2Model ----
(***************************************************************************)
(* State-machine model of the style-transfer session                       *)
(* (src/src/session.py), the feedback interpreter (src/src/interaction.py) *)
(* and the collaborators they call.                                        *)
(*                                                                         *)
(* Python values are modelled with their run-time type: a value is a       *)
(* record [t |-> "float" | "int" | "bool", v |-> Int] (a bool carries 1 or *)
(* 0 in v, as bool is a subclass of int in Python).  FilmulatorParameters  *)
(* instances live in `heap` and the session's dictionary holds references  *)
(* to them, so that aliasing between images is a question the model can    *)
(* answer.                                                                 *)
(***************************************************************************)
EXTENDS Integers, Sequences, FiniteSets, TLC

VARIABLES
    _image_params,          \* session._image_params: image path -> object reference
    heap,                   \* live FilmulatorParameters objects: reference -> field values
    _fingerprint,           \* session._fingerprint (NoFingerprint models None)
    _fallback_fingerprints, \* session._fallback_fingerprints: image path -> fingerprint
    reference_dir,          \* image files present in config.reference_dir
    input_dir,              \* image files present in config.input_dir
    output_dir,             \* files in output_dir: file name -> what was rendered into it
    call,                   \* the last operation invoked, with its arguments
    raised,                 \* the exception that operation raised ("none" if it returned)
    returned,               \* the value it returned to its caller
    trace,                  \* the collaborator calls it made, in order
    before,                 \* the stored state that operation started from
    progress,               \* stylise_all: one entry per image it got to, in order
    steps,                  \* number of operations performed so far
    threads,                \* callers running session methods concurrently: where each is
    gui,                    \* StyleTransferWindow: pending render, its timer, what it drew
    extractor,              \* FingerprintExtractor instances and the weights cache
    platform,               \* the system the program runs on: how pathlib matches names
    transcriber             \* a FasterWhisperTranscriber and the threads calling it

vars == <<_image_params, heap, _fingerprint, _fallback_fingerprints, reference_dir,
          input_dir, output_dir, call, raised, returned, trace, before, progress,
          steps, threads, gui, extractor, platform, transcriber>>

\* What a session method called on its own, from one thread, leaves alone.
surroundings == <<threads, gui, extractor, platform, transcriber>>

-----------------------------------------------------------------------------
(* Bounds and input domains                                                *)

MaxParamOps == 2
MaxSteps == 4
MaxRenderOps == 3
MaxStubOps == 3

Images == {"a.jpg", "b.png"}
RefFiles == {"r1.jpg", "r2.jpg"}
\* An image file kept outside the input directory, under a file name that a
\* listed input also has.
OutsidePaths == {"tmp/a.jpg"}

SliderNames == {"strength", "saturation_scale", "brightness_shift", "shadow_lift",
                "highlight_compress", "contrast", "clarity", "color_temperature",
                "grain_strength"}
BoolNames == {"grayscale", "flip_horizontal", "flip_vertical"}
FieldNames == SliderNames \cup BoolNames \cup {"rotation_degrees"}

PyFloat(n) == [t |-> "float", v |-> n]
PyInt(n) == [t |-> "int", v |-> n]
PyBool(b) == [t |-> "bool", v |-> IF b THEN 1 ELSE 0]

\* Numbers handed to set_parameter for a slider, and for the rotation.
SliderInputs == {PyInt(-500), PyFloat(40), PyInt(150)}
RotationInputs == {PyInt(-500), PyInt(40), PyInt(180)}

-----------------------------------------------------------------------------
(* FilmulatorParameters.  Its module, filmulator_engine, is outside the    *)
(* source tree modelled here; the type follows the specification's data   *)
(* model: all-neutral defaults, rotation kept an integer in [0,360).      *)

\* FilmulatorParameters(): all-neutral defaults.
FilmulatorParameters ==
    [f \in FieldNames |->
        IF f \in SliderNames THEN PyFloat(0)
        ELSE IF f \in BoolNames THEN PyBool(FALSE)
        ELSE PyInt(0)]

\* Mutant: the type stores the rotation it is given.
NormalizeRotation_as_given(value) == value

\* The type keeps rotation_degrees an integer in [0,360) on every assignment.
NormalizeRotation(value) == PyInt(value.v % 360)

\* The value an attribute holds after `params.name = value`.
AttrValue(name, value) ==
    IF name = "rotation_degrees" THEN NormalizeRotation(value) ELSE value

\* setattr(params, name, value) on a FilmulatorParameters instance.
SetAttr(params, name, value) == [params EXCEPT ![name] = AttrValue(name, value)]

-----------------------------------------------------------------------------
(* src/src/interaction.py                                                  *)

CONTROL_MIN == -100
CONTROL_MAX == 100

\* Python's min(a, b) and max(a, b) on two numbers.
Min2(a, b) == IF b < a THEN b ELSE a
Max2(a, b) == IF b > a THEN b ELSE a

\* Mutant: the lower end of the band is not enforced.
_clamp_control_no_floor(value) == Min2(CONTROL_MAX, value)

_clamp_control(value) == Max2(CONTROL_MIN, Min2(CONTROL_MAX, value))

\* The payload key that nudges each slider.
DeltaAttrs == {"strength", "saturation_scale", "brightness_shift", "shadow_lift",
               "highlight_compress", "contrast", "clarity", "color_temperature"}
DeltaKey(attr) ==
    CASE attr = "strength" -> "strength_delta"
      [] attr = "saturation_scale" -> "saturation_delta"
      [] attr = "brightness_shift" -> "brightness_delta"
      [] attr = "shadow_lift" -> "shadow_delta"
      [] attr = "highlight_compress" -> "highlight_delta"
      [] attr = "contrast" -> "contrast_delta"
      [] attr = "clarity" -> "clarity_delta"
      [] attr = "color_temperature" -> "temperature_delta"

ChangeKeys == {DeltaKey(a) : a \in DeltaAttrs}
                \cup {"grain_strength", "grayscale", "rotation", "flip_horizontal",
                      "flip_vertical"}

\* _apply_delta(attr, key): the value of the slider after the call.
_apply_delta(params, llm_result, attr) ==
    IF DeltaKey(attr) \notin DOMAIN llm_result THEN params[attr]
    ELSE AttrValue(attr,
                   PyFloat(_clamp_control(params[attr].v + llm_result[DeltaKey(attr)])))

\* Mutant: the feedback rotation is taken as the new absolute orientation.
ApplyRotation_absolute(params, llm_result) ==
    AttrValue("rotation_degrees", PyInt(llm_result["rotation"] % 360))

\* The feedback rotation is relative to the current orientation.
ApplyRotation(params, llm_result) ==
    AttrValue("rotation_degrees",
              PyInt((params["rotation_degrees"].v + llm_result["rotation"]) % 360))

\* Mutant: the reset is carried out first and the other keys of the payload
\* are then applied to the fresh defaults.
_apply_llm_result_reset_first(params, llm_result) ==
    LET reset == "reset" \in DOMAIN llm_result /\ llm_result["reset"]
        base == IF reset THEN FilmulatorParameters ELSE params
        after(f) ==
            IF f \in DeltaAttrs THEN _apply_delta(base, llm_result, f)
            ELSE IF f = "grain_strength"
            THEN IF "grain_strength" \in DOMAIN llm_result
                 THEN AttrValue(f, PyFloat(_clamp_control(llm_result["grain_strength"])))
                 ELSE base[f]
            ELSE IF f = "rotation_degrees"
            THEN IF "rotation" \in DOMAIN llm_result
                 THEN ApplyRotation(base, llm_result)
                 ELSE base[f]
            ELSE IF f \in DOMAIN llm_result
                 THEN AttrValue(f, PyBool(llm_result[f]))
                 ELSE base[f]
    IN  [params |-> [f \in FieldNames |-> after(f)],
         changed |-> (DOMAIN llm_result \cap ChangeKeys # {}) \/ reset]

\* The mutated params and the `changed` flag.  Every statement of the
\* function reads and writes one attribute of its own, so the record after
\* the sequence is given attribute by attribute; the reset comes last and
\* overwrites them all.
_apply_llm_result(params, llm_result) ==
    LET after(f) ==
            IF f \in DeltaAttrs THEN _apply_delta(params, llm_result, f)
            ELSE IF f = "grain_strength"
            THEN IF "grain_strength" \in DOMAIN llm_result
                 THEN AttrValue(f, PyFloat(_clamp_control(llm_result["grain_strength"])))
                 ELSE params[f]
            ELSE IF f = "rotation_degrees"
            THEN IF "rotation" \in DOMAIN llm_result
                 THEN ApplyRotation(params, llm_result)
                 ELSE params[f]
            \* grayscale, flip_horizontal, flip_vertical: the key is the attribute name
            ELSE IF f \in DOMAIN llm_result
                 THEN AttrValue(f, PyBool(llm_result[f]))
                 ELSE params[f]
        reset == "reset" \in DOMAIN llm_result /\ llm_result["reset"]
    IN  [params |-> IF reset THEN FilmulatorParameters
                    ELSE [f \in FieldNames |-> after(f)],
         changed |-> (DOMAIN llm_result \cap ChangeKeys # {}) \/ reset]

_clamp_parameters(params) ==
    [f \in FieldNames |->
        IF f \in SliderNames THEN PyFloat(_clamp_control(params[f].v)) ELSE params[f]]

\* str.strip() on the feedback texts of the model.
Strip(feedback) == IF feedback = "   " THEN "" ELSE feedback

\* interpret_feedback(feedback, params), where llm_result is what
\* parse_feedback_with_llm answers for this text (<<>> models None and {}).
\* `copied` tells whether `params` of the result is the replace() clone or
\* the caller's own object.
interpret_feedback(feedback, params, llm_result) ==
    IF feedback = "" \/ Strip(feedback) = ""
    THEN [params |-> params, copied |-> FALSE, changed |-> FALSE,
          messages |-> <<>>, asked |-> FALSE]
    ELSE IF DOMAIN llm_result = {}
    THEN [params |-> params, copied |-> FALSE, changed |-> FALSE,
          messages |-> <<>>, asked |-> TRUE]
    ELSE
      LET messages == IF "messages" \in DOMAIN llm_result
                      THEN llm_result["messages"] ELSE <<>>
          rest == [k \in DOMAIN llm_result \ {"messages"} |-> llm_result[k]]
          res == _apply_llm_result(params, rest)
      IN  IF res.changed
          THEN [params |-> _clamp_parameters(res.params), copied |-> TRUE,
                changed |-> TRUE, messages |-> messages, asked |-> TRUE]
          ELSE [params |-> params, copied |-> FALSE, changed |-> FALSE,
                messages |-> messages, asked |-> TRUE]

-----------------------------------------------------------------------------
(* Collaborators of the session                                            *)

\* src/src/utils/filesystem.py
IMAGE_PATTERNS == <<"*.jpg", "*.jpeg", "*.png", "*.bmp", "*.JPG", "*.JPEG", "*.PNG", "*.BMP">>

\* Files a directory may hold besides the session's own.
OtherFiles == {"c.Jpg", "d.pNG", "e.BMP", "f.txt"}
\* Path.suffix
Suffix(file) ==
    CASE file \in {"a.jpg", "r1.jpg", "r2.jpg"} -> ".jpg"
      [] file = "b.png" -> ".png"
      [] file = "c.Jpg" -> ".Jpg"
      [] file = "d.pNG" -> ".pNG"
      [] file = "e.BMP" -> ".BMP"
      [] file = "f.txt" -> ".txt"
      [] OTHER -> ""

\* str.lower() of a suffix or of a pattern
Lower(text) ==
    CASE text \in {".jpg", ".Jpg", ".JPG"} -> ".jpg"
      [] text \in {".png", ".pNG", ".PNG"} -> ".png"
      [] text \in {".bmp", ".BMP"} -> ".bmp"
      [] text \in {"*.jpg", "*.JPG"} -> "*.jpg"
      [] text \in {"*.jpeg", "*.JPEG"} -> "*.jpeg"
      [] text \in {"*.png", "*.PNG"} -> "*.png"
      [] text \in {"*.bmp", "*.BMP"} -> "*.bmp"
      [] OTHER -> text

\* The suffix a pattern "*" + suffix asks for.
SuffixOf(pattern) ==
    CASE pattern = "*.jpg" -> ".jpg"
      [] pattern = "*.jpeg" -> ".jpeg"
      [] pattern = "*.png" -> ".png"
      [] pattern = "*.bmp" -> ".bmp"
      [] pattern = "*.JPG" -> ".JPG"
      [] pattern = "*.JPEG" -> ".JPEG"
      [] pattern = "*.PNG" -> ".PNG"
      [] pattern = "*.BMP" -> ".BMP"

\* pathlib compares names with a pattern letter by letter on POSIX and
\* without regard to case on Windows.
Platforms == {"posix", "windows"}
\* directory.glob(pattern)
glob(directory, pattern) ==
    {f \in directory :
        IF platform = "windows"
        THEN Lower(Suffix(f)) = SuffixOf(Lower(pattern))
        ELSE Suffix(f) = SuffixOf(pattern)}

\* Position of a path in sorted() order.
PathRank(file) ==
    CASE file = "a.jpg" -> 1
      [] file = "b.png" -> 2
      [] file = "c.Jpg" -> 3
      [] file = "d.pNG" -> 4
      [] file = "e.BMP" -> 5
      [] file = "f.txt" -> 6
      [] file = "r1.jpg" -> 7
      [] file = "r2.jpg" -> 8
      [] OTHER -> 9

RECURSIVE SortedSeq(_)
SortedSeq(files) ==
    IF files = {} THEN <<>>
    ELSE LET first == CHOOSE f \in files : \A g \in files : PathRank(f) <= PathRank(g)
         IN  <<first>> \o SortedSeq(files \ {first})

\* sorted() of the paths the generator yields: a path comes once for each
\* pattern it matches.
RECURSIVE SortedPaths(_, _)
SortedPaths(files, times) ==
    IF files = {} THEN <<>>
    ELSE LET first == CHOOSE f \in files : \A g \in files : PathRank(f) <= PathRank(g)
         IN  [i \in 1..times[first] |-> first] \o SortedPaths(files \ {first}, times)

list_images(directory) ==
    CHOOSE listing \in
        {SortedPaths({f \in directory : times[f] > 0}, times) :
            times \in
                {[f \in directory |->
                     Cardinality({i \in DOMAIN IMAGE_PATTERNS : f \in hits[i]})] @@ <<>> :
                    hits \in {[i \in DOMAIN IMAGE_PATTERNS |->
                                  glob(directory, IMAGE_PATTERNS[i])] @@ <<>>}}} : TRUE

\* Path.name: the last component of a path (a listed input is written by its
\* file name, as it lies directly in the input directory).
Name(path) == IF path = "tmp/a.jpg" THEN "a.jpg" ELSE path

\* A StyleFingerprint is identified by the images it aggregates (compute is
\* deterministic in its inputs); NoFingerprint stands for None.
NoFingerprint == [kind |-> "none", sources |-> <<>>]
compute(images) == [kind |-> "fingerprint", sources |-> images]

\* How a call of extractor.compute on existing files can end, and how the
\* decode/encode of a render can end.
ExtractorOutcomes == {"ok", "ValueError", "OSError"}
RenderOutcomes == {"ok", "OSError"}

\* What the engine writes: a pure function of source, fingerprint and parameters.
Render(input_path, fingerprint, params) ==
    [input |-> input_path, fingerprint |-> fingerprint, params |-> params]

EmptyMap == <<>>
Range(f) == {f[k] : k \in DOMAIN f}
Restrict(f, S) == [k \in S |-> f[k]]
PyNone == [t |-> "NoneType", v |-> 0]

-----------------------------------------------------------------------------
(* src/src/session.py                                                      *)

\* A fresh object reference (the lowest address not in use).
NewRef(hp) ==
    CHOOSE r \in 1..(Cardinality(DOMAIN hp) + 1) :
        r \notin DOMAIN hp /\ \A q \in 1..(r - 1) : q \in DOMAIN hp

\* Objects no dictionary entry refers to any more are dropped.
Collect(ip, hp) == Restrict(hp, Range(ip))

\* Mutant: one default instance, created once, is handed to every new image.
_params_for_shared_default(ip, hp, input_path) ==
    IF input_path \in DOMAIN ip
    THEN [ip |-> ip, heap |-> hp, ref |-> ip[input_path]]
    ELSE [ip |-> ip @@ (input_path :> 0),
          heap |-> IF 0 \in DOMAIN hp THEN hp ELSE hp @@ (0 :> FilmulatorParameters),
          ref |-> 0]

\* Mutant: a new image starts from a copy of an image already adjusted.
_params_for_inherit(ip, hp, input_path) ==
    IF input_path \in DOMAIN ip
    THEN [ip |-> ip, heap |-> hp, ref |-> ip[input_path]]
    ELSE LET r == NewRef(hp)
             start == IF DOMAIN ip = {} THEN FilmulatorParameters
                      ELSE hp[ip[CHOOSE k \in DOMAIN ip : TRUE]]
         IN  [ip |-> ip @@ (input_path :> r), heap |-> hp @@ (r :> start), ref |-> r]

\* _image_params.setdefault(input_path, FilmulatorParameters()): the
\* dictionary and heap afterwards, and the reference returned.
_params_for(ip, hp, input_path) ==
    IF input_path \in DOMAIN ip
    THEN [ip |-> ip, heap |-> hp, ref |-> ip[input_path]]
    ELSE LET r == NewRef(hp)
         IN  [ip |-> ip @@ (input_path :> r),
              heap |-> hp @@ (r :> FilmulatorParameters),
              ref |-> r]

\* isinstance(value, (int, float)): bool is a subclass of int.
IsNumber(value) == value.t \in {"int", "float", "bool"}

\* Mutant: only the upper end of the range is enforced.
ClampedValue_upper_only(name, value) ==
    IF IsNumber(value) THEN PyFloat(Min2(100, value.v)) ELSE value

\* The value set_parameter hands to setattr.
ClampedValue(name, value) ==
    IF IsNumber(value) THEN PyFloat(Max2(-100, Min2(100, value.v))) ELSE value

\* What the caller of an operation observes, and the stored state the
\* operation started from.
StoredParams == [x \in DOMAIN _image_params |-> heap[_image_params[x]]]
Snapshot == [params |-> StoredParams, fingerprint |-> _fingerprint,
             fallbacks |-> _fallback_fingerprints, refs |-> _image_params,
             outputs |-> output_dir]
Observe(c, exc, ret, tr) ==
    /\ call' = c
    /\ raised' = exc
    /\ returned' = ret
    /\ trace' = tr
    /\ before' = Snapshot
    /\ progress' = <<>>
    /\ steps' = steps + 1
    /\ UNCHANGED surroundings

set_parameter(input_path, name, value) ==
    LET pf == _params_for(_image_params, heap, input_path)
    IN  /\ _image_params' = pf.ip
        /\ heap' = [pf.heap EXCEPT ![pf.ref] = SetAttr(@, name, ClampedValue(name, value))]
        /\ Observe(<<"set_parameter", input_path, name, value>>, "none", PyNone, <<>>)
        /\ UNCHANGED <<_fingerprint, _fallback_fingerprints, reference_dir, input_dir,
                       output_dir>>

current_parameters(input_path) ==
    LET pf == _params_for(_image_params, heap, input_path)
    IN  /\ _image_params' = pf.ip
        /\ heap' = pf.heap
        /\ Observe(<<"current_parameters", input_path>>, "none", pf.heap[pf.ref], <<>>)
        /\ UNCHANGED <<_fingerprint, _fallback_fingerprints, reference_dir, input_dir,
                       output_dir>>

\* Mutant: the interpreter's result is never stored.
Commit_discard(ip, input_path, changed, updated) == ip

\* `if changed: self._image_params[input_path] = updated`
Commit(ip, input_path, changed, updated) ==
    IF changed THEN [ip EXCEPT ![input_path] = updated] ELSE ip

\* apply_feedback from the interpreter's answer res on: pf is what
\* _params_for gave, tr the collaborator calls the interpreter made.
StoreFeedback(feedback, input_path, pf, res, tr) ==
    LET updated == IF res.copied THEN NewRef(pf.heap) ELSE pf.ref
        hp == IF res.copied THEN pf.heap @@ (updated :> res.params) ELSE pf.heap
        ip == Commit(pf.ip, input_path, res.changed, updated)
    IN  /\ _image_params' = ip
        /\ heap' = Collect(ip, hp)
        /\ Observe(<<"apply_feedback", input_path, feedback>>, "none",
                   [changed |-> res.changed, messages |-> res.messages], tr)
        /\ UNCHANGED <<_fingerprint, _fallback_fingerprints, reference_dir, input_dir,
                       output_dir>>

apply_feedback(feedback, input_path, llm_result) ==
    LET pf == _params_for(_image_params, heap, input_path)
        res == interpret_feedback(feedback, pf.heap[pf.ref], llm_result)
    IN  StoreFeedback(feedback, input_path, pf, res,
                      IF res.asked
                      THEN << <<"parse_feedback_with_llm", feedback, llm_result>> >>
                      ELSE <<>>)

\* apply_feedback run against a replacement of interpret_feedback that
\* answers (new_params, changed, messages) with a Parameters object of its own.
apply_feedback_with(feedback, input_path, answer) ==
    LET pf == _params_for(_image_params, heap, input_path)
        res == [params |-> answer[1], copied |-> TRUE, changed |-> answer[2],
                messages |-> answer[3], asked |-> FALSE]
    IN  StoreFeedback(feedback, input_path, pf, res,
                      << <<"interpret_feedback", feedback, answer>> >>)

\* Mutant: the stored records are kept and only their sliders are zeroed.
reset_parameters_sliders_only ==
    /\ _image_params' = _image_params
    /\ heap' = [r \in DOMAIN heap |->
                   [f \in FieldNames |-> IF f \in SliderNames THEN PyFloat(0) ELSE heap[r][f]]]
    /\ Observe(<<"reset_parameters">>, "none", PyNone, <<>>)
    /\ UNCHANGED <<_fingerprint, _fallback_fingerprints, reference_dir, input_dir,
                   output_dir>>

reset_parameters ==
    LET keys == DOMAIN _image_params
        \* each key gets an instance of its own
        fresh == CHOOSE f \in [keys -> 1..Cardinality(keys)] :
                    \A j, k \in keys : j # k => f[j] # f[k]
    IN  /\ _image_params' = fresh
        /\ heap' = [r \in Range(fresh) |-> FilmulatorParameters]
        /\ Observe(<<"reset_parameters">>, "none", PyNone, <<>>)
        /\ UNCHANGED <<_fingerprint, _fallback_fingerprints, reference_dir, input_dir,
                       output_dir>>

reset_parameters_for(input_path) ==
    LET r == NewRef(heap)
        ip == IF input_path \in DOMAIN _image_params
              THEN [_image_params EXCEPT ![input_path] = r]
              ELSE _image_params @@ (input_path :> r)
    IN  /\ _image_params' = ip
        /\ heap' = Collect(ip, heap @@ (r :> FilmulatorParameters))
        /\ Observe(<<"reset_parameters_for", input_path>>, "none", PyNone, <<>>)
        /\ UNCHANGED <<_fingerprint, _fallback_fingerprints, reference_dir, input_dir,
                       output_dir>>

_gather_reference_images == list_images(reference_dir)

\* fingerprint() on a session whose caches are fp and fallbacks: what it
\* caches, raises and calls when extractor.compute ends with outcome e.
FingerprintOn(fp, fallbacks, e) ==
    IF fp # NoFingerprint
    THEN [fp |-> fp, fallbacks |-> fallbacks, raised |-> "none", trace |-> <<>>]
    ELSE LET references == _gather_reference_images
         IN  IF references = <<>>
             THEN [fp |-> fp, fallbacks |-> fallbacks,
                   raised |-> "ValueError", trace |-> <<>>]
             ELSE IF e = "ok"
             THEN [fp |-> compute(references), fallbacks |-> EmptyMap,
                   raised |-> "none", trace |-> << <<"compute", references>> >>]
             ELSE [fp |-> fp, fallbacks |-> fallbacks,
                   raised |-> e, trace |-> << <<"compute", references>> >>]

\* Mutant: the cached fingerprint is not consulted.
FingerprintResult_uncached(e) ==
    LET references == list_images(reference_dir)
    IN  IF references = <<>>
        THEN [fp |-> _fingerprint, fallbacks |-> _fallback_fingerprints,
              raised |-> "ValueError", trace |-> <<>>]
        ELSE IF e = "ok"
        THEN [fp |-> compute(references), fallbacks |-> EmptyMap,
              raised |-> "none", trace |-> << <<"compute", references>> >>]
        ELSE [fp |-> _fingerprint, fallbacks |-> _fallback_fingerprints,
              raised |-> e, trace |-> << <<"compute", references>> >>]

\* Mutant: the fallback entries survive the computation of the primary fingerprint.
FingerprintResult_keeps_fallbacks(e) ==
    IF _fingerprint # NoFingerprint
    THEN [fp |-> _fingerprint, fallbacks |-> _fallback_fingerprints,
          raised |-> "none", trace |-> <<>>]
    ELSE LET references == list_images(reference_dir)
         IN  IF references = <<>>
             THEN [fp |-> _fingerprint, fallbacks |-> _fallback_fingerprints,
                   raised |-> "ValueError", trace |-> <<>>]
             ELSE IF e = "ok"
             THEN [fp |-> compute(references), fallbacks |-> _fallback_fingerprints,
                   raised |-> "none", trace |-> << <<"compute", references>> >>]
             ELSE [fp |-> _fingerprint, fallbacks |-> _fallback_fingerprints,
                   raised |-> e, trace |-> << <<"compute", references>> >>]

\* The body of fingerprint() on the session's own caches.
FingerprintResult(e) == FingerprintOn(_fingerprint, _fallback_fingerprints, e)

fingerprint(e) ==
    LET res == FingerprintResult(e)
    IN  /\ _fingerprint' = res.fp
        /\ _fallback_fingerprints' = res.fallbacks
        /\ Observe(<<"fingerprint">>, res.raised,
                   IF res.raised = "none" THEN res.fp ELSE NoFingerprint, res.trace)
        /\ UNCHANGED <<_image_params, heap, reference_dir, input_dir, output_dir>>

\* Mutant: the reference list is handed to the extractor without the
\* emptiness check (compute raises ValueError on an empty list).
RefreshResult_unchecked(e) ==
    LET references == list_images(reference_dir)
    IN  IF references # <<>> /\ e = "ok"
        THEN [fp |-> compute(references), fallbacks |-> EmptyMap,
              raised |-> "none", trace |-> << <<"compute", references>> >>]
        ELSE [fp |-> _fingerprint, fallbacks |-> _fallback_fingerprints,
              raised |-> IF references = <<>> THEN "ValueError" ELSE e,
              trace |-> << <<"compute", references>> >>]

\* Mutant: a cached primary fingerprint is kept instead of being recomputed.
RefreshResult_cached(e) ==
    LET references == list_images(reference_dir)
    IN  IF references = <<>>
        THEN [fp |-> _fingerprint, fallbacks |-> _fallback_fingerprints,
              raised |-> "ValueError", trace |-> <<>>]
        ELSE IF _fingerprint # NoFingerprint
        THEN [fp |-> _fingerprint, fallbacks |-> EmptyMap,
              raised |-> "none", trace |-> <<>>]
        ELSE IF e = "ok"
        THEN [fp |-> compute(references), fallbacks |-> EmptyMap,
              raised |-> "none", trace |-> << <<"compute", references>> >>]
        ELSE [fp |-> _fingerprint, fallbacks |-> _fallback_fingerprints,
              raised |-> e, trace |-> << <<"compute", references>> >>]

\* The body of refresh_fingerprint().
RefreshResult(e) ==
    LET references == _gather_reference_images
    IN  IF references = <<>>
        THEN [fp |-> _fingerprint, fallbacks |-> _fallback_fingerprints,
              raised |-> "ValueError", trace |-> <<>>]
        ELSE IF e = "ok"
        THEN [fp |-> compute(references), fallbacks |-> EmptyMap,
              raised |-> "none", trace |-> << <<"compute", references>> >>]
        ELSE [fp |-> _fingerprint, fallbacks |-> _fallback_fingerprints,
              raised |-> e, trace |-> << <<"compute", references>> >>]

\* Mutant: a successful refresh renders the existing outputs again.
refresh_fingerprint_rerender(e) ==
    LET res == RefreshResult(e)
    IN  /\ _fingerprint' = res.fp
        /\ _fallback_fingerprints' = res.fallbacks
        /\ output_dir' = IF res.raised = "none"
                         THEN [f \in DOMAIN output_dir |->
                                  [output_dir[f] EXCEPT !.fingerprint = res.fp]]
                         ELSE output_dir
        /\ Observe(<<"refresh_fingerprint">>, res.raised, PyNone, res.trace)
        /\ UNCHANGED <<_image_params, heap, reference_dir, input_dir>>

refresh_fingerprint(e) ==
    LET res == RefreshResult(e)
    IN  /\ _fingerprint' = res.fp
        /\ _fallback_fingerprints' = res.fallbacks
        /\ Observe(<<"refresh_fingerprint">>, res.raised, PyNone, res.trace)
        /\ UNCHANGED <<_image_params, heap, reference_dir, input_dir, output_dir>>

\* Image.open(path) finds a file to decode.
FileExists(path) == path \in input_dir \/ path \in OutsidePaths

\* Mutant: the fallback cache is not consulted.
ResolveOn_recompute(fp, fallbacks, input_path, e1, e2) ==
    LET res == FingerprintOn(fp, fallbacks, e1)
        own == << <<"compute", <<input_path>> >> >>
    IN  IF res.raised # "ValueError"
        THEN res @@ [use |-> res.fp]
        ELSE IF ~FileExists(input_path)
        THEN [res EXCEPT !.raised = "OSError", !.trace = @ \o own]
                 @@ [use |-> NoFingerprint]
        ELSE IF e2 = "ok"
        THEN [res EXCEPT !.raised = "none", !.trace = @ \o own,
                         !.fallbacks = [k \in DOMAIN @ \cup {input_path} |->
                                          IF k = input_path THEN compute(<<input_path>>)
                                          ELSE @[k]]]
                 @@ [use |-> compute(<<input_path>>)]
        ELSE [res EXCEPT !.raised = e2, !.trace = @ \o own] @@ [use |-> NoFingerprint]

\* The fingerprint stylise_image resolves (`use`): the primary one, or, when
\* fingerprint() raises ValueError, the image's fallback; e2 is the outcome of
\* extractor.compute([input_path]).
ResolveOn(fp, fallbacks, input_path, e1, e2) ==
    LET res == FingerprintOn(fp, fallbacks, e1)
        own == << <<"compute", <<input_path>> >> >>
    IN  IF res.raised # "ValueError"
        THEN res @@ [use |-> res.fp]
        ELSE IF input_path \in DOMAIN res.fallbacks
        THEN [res EXCEPT !.raised = "none"] @@ [use |-> res.fallbacks[input_path]]
        ELSE IF ~FileExists(input_path)
        THEN [res EXCEPT !.raised = "OSError", !.trace = @ \o own]
                 @@ [use |-> NoFingerprint]
        ELSE IF e2 = "ok"
        THEN [res EXCEPT !.raised = "none", !.trace = @ \o own,
                         !.fallbacks = @ @@ (input_path :> compute(<<input_path>>))]
                 @@ [use |-> compute(<<input_path>>)]
        ELSE [res EXCEPT !.raised = e2, !.trace = @ \o own] @@ [use |-> NoFingerprint]

ResolveFingerprint(input_path, e1, e2) ==
    ResolveOn(_fingerprint, _fallback_fingerprints, input_path, e1, e2)

\* Mutant: a file already at the output path is left as it is.
WriteOutput_keep_first(out, output_path, content) ==
    IF output_path \in DOMAIN out THEN out ELSE out @@ (output_path :> content)

\* styled.save(output_path): the files of the output directory afterwards.
WriteOutput(out, output_path, content) ==
    [f \in DOMAIN out \cup {output_path} |->
        IF f = output_path THEN content ELSE out[f]]

\* The session's dictionaries, caches and output directory as one value.
Session == [ip |-> _image_params, heap |-> heap, fp |-> _fingerprint,
            fallbacks |-> _fallback_fingerprints, out |-> output_dir]

\* Mutant: the call that computes the primary fingerprint renders with the
\* image's own fingerprint and leaves the primary one to later calls.
StyliseOn_own_first(S, input_path, e1, e2, r) ==
    LET output_path == Name(input_path)
        res == ResolveOn(S.fp, S.fallbacks, input_path, e1, e2)
        use == IF S.fp = NoFingerprint /\ res.fp # NoFingerprint
               THEN compute(<<input_path>>) ELSE res.use
        pf == _params_for(S.ip, S.heap, input_path)
        params == pf.heap[pf.ref]
        opened == FileExists(input_path) /\ r = "ok"
        engine == << <<"apply_style_to_path", input_path, output_path, use, params>> >>
        resolved == [S EXCEPT !.fp = res.fp, !.fallbacks = res.fallbacks]
        ready == [resolved EXCEPT !.ip = pf.ip, !.heap = pf.heap]
    IN  IF res.raised # "none"
        THEN [session |-> resolved, raised |-> res.raised, returned |-> PyNone,
              trace |-> res.trace, began |-> S]
        ELSE IF opened
        THEN [session |-> [ready EXCEPT !.out = WriteOutput(@, output_path,
                                                Render(input_path, use, params))],
              raised |-> "none", returned |-> output_path,
              trace |-> res.trace \o engine, began |-> ready]
        ELSE [session |-> ready, raised |-> "OSError", returned |-> PyNone,
              trace |-> res.trace \o engine, began |-> ready]

\* stylise_image(input_path) run on the session value S: the session
\* afterwards, what the call raises and returns, the collaborator calls it
\* makes, and the session at the moment the engine was invoked (`began`; the
\* session the call started from if it never got that far).
StyliseOn(S, input_path, e1, e2, r) ==
    LET output_path == Name(input_path)     \* output_dir / input_path.name
        res == ResolveOn(S.fp, S.fallbacks, input_path, e1, e2)
        pf == _params_for(S.ip, S.heap, input_path)
        params == pf.heap[pf.ref]
        opened == FileExists(input_path) /\ r = "ok"
        engine == << <<"apply_style_to_path", input_path, output_path, res.use, params>> >>
        resolved == [S EXCEPT !.fp = res.fp, !.fallbacks = res.fallbacks]
        ready == [resolved EXCEPT !.ip = pf.ip, !.heap = pf.heap]
    IN  IF res.raised # "none"
        THEN [session |-> resolved, raised |-> res.raised, returned |-> PyNone,
              trace |-> res.trace, began |-> S]
        ELSE IF opened
        THEN [session |-> [ready EXCEPT !.out = WriteOutput(@, output_path,
                                                Render(input_path, res.use, params))],
              raised |-> "none", returned |-> output_path,
              trace |-> res.trace \o engine, began |-> ready]
        ELSE [session |-> ready, raised |-> "OSError", returned |-> PyNone,
              trace |-> res.trace \o engine, began |-> ready]

stylise_image(input_path, e1, e2, r) ==
    \E s \in {StyliseOn(Session, input_path, e1, e2, r)} :
        /\ _image_params' = s.session.ip
        /\ heap' = s.session.heap
        /\ _fingerprint' = s.session.fp
        /\ _fallback_fingerprints' = s.session.fallbacks
        /\ output_dir' = s.session.out
        /\ Observe(<<"stylise_image", input_path>>, s.raised, s.returned, s.trace)
        /\ UNCHANGED <<reference_dir, input_dir>>

\* Every collaborator call of a stylise_image call succeeds.
AllOk == <<"ok", "ok", "ok">>

\* Mutant: a failed stylise_image call makes the loop drop the cached
\* primary fingerprint.
AfterImage_drop_fingerprint(acc, path, s) ==
    [session |-> IF s.raised = "none" THEN s.session
                 ELSE [s.session EXCEPT !.fp = NoFingerprint],
     raised |-> s.raised,
     results |-> IF s.raised = "none"
                 THEN Append(acc.results, [input_path |-> path, output_path |-> s.returned])
                 ELSE acc.results,
     trace |-> acc.trace \o s.trace,
     progress |-> Append(acc.progress,
                         [input |-> path, entered |-> acc.session, began |-> s.began,
                          raised |-> s.raised])]

\* What the loop of stylise_all carries after a stylise_image call that ended
\* as s on path: the session, the exception that ends the loop ("none" while
\* it runs), the results appended so far, the collaborator calls made and one
\* `progress` entry per stylise_image call.
AfterImage(acc, path, s) ==
    [session |-> s.session,
     raised |-> s.raised,
     results |-> IF s.raised = "none"
                 THEN Append(acc.results, [input_path |-> path, output_path |-> s.returned])
                 ELSE acc.results,
     trace |-> acc.trace \o s.trace,
     progress |-> Append(acc.progress,
                         [input |-> path, entered |-> acc.session, began |-> s.began,
                          raised |-> s.raised])]

\* Mutant: an image whose render fails is skipped and the loop goes on.
RECURSIVE BatchFrom_skip_failed(_, _, _, _, _)
BatchFrom_skip_failed(acc, paths, i, k, oc) ==
    IF i > Len(paths) THEN acc
    ELSE LET o == IF i = k THEN oc ELSE AllOk
         IN  CHOOSE end \in
                 {BatchFrom_skip_failed([a EXCEPT !.raised = "none"], paths, i + 1, k, oc) :
                     a \in {AfterImage(acc, paths[i], s) :
                               s \in {StyliseOn(acc.session, paths[i], o[1], o[2], o[3])}}} :
                 TRUE

\* The loop of stylise_all from the i-th listed path on; the k-th
\* stylise_image call meets outcomes oc, every other call succeeds.  (Each
\* intermediate value is bound once, as an element of a singleton set.)
RECURSIVE BatchFrom(_, _, _, _, _)
BatchFrom(acc, paths, i, k, oc) ==
    IF i > Len(paths) \/ acc.raised # "none" THEN acc
    ELSE LET o == IF i = k THEN oc ELSE AllOk
         IN  CHOOSE end \in
                 {BatchFrom(a, paths, i + 1, k, oc) :
                     a \in {AfterImage(acc, paths[i], s) :
                               s \in {StyliseOn(acc.session, paths[i], o[1], o[2], o[3])}}} :
                 TRUE

\* Mutant: the inputs are taken in descending order of path.
RECURSIVE list_inputs_descending(_)
list_inputs_descending(directory) ==
    LET files == Range(list_images(directory))
    IN  IF files = {} THEN <<>>
        ELSE LET last == CHOOSE f \in files : \A g \in files : PathRank(g) <= PathRank(f)
             IN  <<last>> \o list_inputs_descending(directory \ {last})

\* The paths list_inputs() lists; its ValueError on an empty listing is
\* raised where stylise_all calls it.
list_inputs(directory) == list_images(directory)

stylise_all(k, oc) ==
    LET paths == list_inputs(input_dir)
    IN  /\ call' = <<"stylise_all">>
        /\ before' = Snapshot
        /\ steps' = steps + 1
        /\ UNCHANGED <<reference_dir, input_dir, surroundings>>
        /\ IF paths = <<>>
           THEN /\ raised' = "ValueError"
                /\ returned' = PyNone
                /\ trace' = <<>>
                /\ progress' = <<>>
                /\ UNCHANGED <<_image_params, heap, _fingerprint, _fallback_fingerprints,
                               output_dir>>
           ELSE \E done \in {BatchFrom([session |-> Session, raised |-> "none",
                                        results |-> <<>>, trace |-> <<>>,
                                        progress |-> <<>>],
                                       paths, 1, k, oc)} :
                /\ _image_params' = done.session.ip
                /\ heap' = done.session.heap
                /\ _fingerprint' = done.session.fp
                /\ _fallback_fingerprints' = done.session.fallbacks
                /\ output_dir' = done.session.out
                /\ raised' = done.raised
                /\ returned' = IF done.raised = "none" THEN done.results ELSE PyNone
                /\ trace' = done.trace
                /\ progress' = done.progress

\* Mutant: only the primary fingerprint counts.
HasFingerprintResult_primary_only == _fingerprint # NoFingerprint

\* `self._fingerprint is not None or bool(self._fallback_fingerprints)`
HasFingerprintResult ==
    _fingerprint # NoFingerprint \/ DOMAIN _fallback_fingerprints # {}

has_fingerprint ==
    /\ Observe(<<"has_fingerprint">>, "none", HasFingerprintResult, <<>>)
    /\ UNCHANGED <<_image_params, heap, _fingerprint, _fallback_fingerprints,
                   reference_dir, input_dir, output_dir>>

\* cleanup_files empties the three directories; then the fallbacks are cleared.
cleanup_assets ==
    /\ reference_dir' = {}
    /\ input_dir' = {}
    /\ output_dir' = EmptyMap
    /\ _fallback_fingerprints' = EmptyMap
    /\ Observe(<<"cleanup_assets">>, "none", PyNone, <<>>)
    /\ UNCHANGED <<_image_params, heap, _fingerprint>>

\* The environment adds an image to, or removes one from, the reference directory.
AddReference(file) ==
    /\ file \notin reference_dir
    /\ reference_dir' = reference_dir \cup {file}
    /\ Observe(<<"add_reference", file>>, "none", PyNone, <<>>)
    /\ UNCHANGED <<_image_params, heap, _fingerprint, _fallback_fingerprints,
                   input_dir, output_dir>>

RemoveReference(file) ==
    /\ file \in reference_dir
    /\ reference_dir' = reference_dir \ {file}
    /\ Observe(<<"remove_reference", file>>, "none", PyNone, <<>>)
    /\ UNCHANGED <<_image_params, heap, _fingerprint, _fallback_fingerprints,
                   input_dir, output_dir>>

-----------------------------------------------------------------------------
(* session.py called from several threads                                  *)
(*                                                                         *)
(* The session holds no lock, so a method runs statement by statement and  *)
(* another thread may run between any two of them (gui.py hands            *)
(* apply_feedback to a QThreadPool worker while the GUI thread keeps       *)
(* calling set_parameter and stylise_image).  A thread is a record: `pc`   *)
(* the statement it is at, `op` the call it runs, `ref` the Parameters     *)
(* object its local variable `params` refers to (0: none), `local` its     *)
(* other local value, and how the call ended.                              *)

Threads == {"t1", "t2"}
MaxThreadCalls == 2

Idle == [pc |-> "idle", op |-> <<>>, ref |-> 0, local |-> <<>>,
         raised |-> "none", returned |-> PyNone]
NoThreads == [t \in Threads |-> Idle]

\* The calls a thread makes.
ThreadCalls ==
    { <<"fingerprint">>,
      <<"stylise_image", "a.jpg">>,
      <<"apply_feedback", "a.jpg", "warmer", [brightness_delta |-> 10]>>,
      <<"apply_feedback", "a.jpg", "warmer", [strength_delta |-> 20]>>,
      <<"set_parameter", "a.jpg", "strength", PyFloat(50)>> }

\* The first statement of each method.
Entry(c) ==
    CASE c[1] \in {"fingerprint", "stylise_image"} -> "fp_check"
      [] c[1] = "apply_feedback" -> "af_params"
      [] c[1] = "set_parameter" -> "sp_params"

\* Objects stay alive while the dictionary or a thread's local refers to them.
Live(ip, hp, thr) ==
    Restrict(hp, (Range(ip) \cup {thr[t].ref : t \in Threads}) \cap DOMAIN hp)

\* Thread t moves on to statement pc, with new locals.
Goto(t, pc, ref, local) ==
    [threads EXCEPT ![t] = [@ EXCEPT !.pc = pc, !.ref = ref, !.local = local]]
\* Thread t's call ends.
Finish(t, exc, ret) ==
    [threads EXCEPT ![t] = [@ EXCEPT !.pc = "done", !.ref = 0, !.local = <<>>,
                                     !.raised = exc, !.returned = ret]]

\* What no statement of these methods touches.
thread_frame == <<call, raised, returned, trace, before, progress, gui, extractor,
                  platform, transcriber, reference_dir, input_dir>>

\* A thread calls a method of the session.
Begin ==
    \E t \in Threads, c \in ThreadCalls :
        /\ steps < MaxThreadCalls
        /\ threads[t].pc \in {"idle", "done"}
        /\ threads' = [threads EXCEPT ![t] = [Idle EXCEPT !.pc = Entry(c), !.op = c]]
        /\ steps' = steps + 1
        /\ UNCHANGED <<_image_params, heap, _fingerprint, _fallback_fingerprints,
                       output_dir, thread_frame>>

\* fingerprint(), line 57: `if self._fingerprint is None:`
FpCheck ==
    \E t \in Threads :
        /\ threads[t].pc = "fp_check"
        /\ threads' = Goto(t, IF _fingerprint = NoFingerprint THEN "fp_gather"
                              ELSE "fp_return", 0, <<>>)
        /\ UNCHANGED <<_image_params, heap, _fingerprint, _fallback_fingerprints,
                       output_dir, steps, thread_frame>>

\* Lines 59-62: the references are listed; none raises ValueError (which
\* stylise_image catches, line 73), otherwise extractor.compute is entered.
FpGather ==
    \E t \in Threads :
        /\ threads[t].pc = "fp_gather"
        /\ LET references == _gather_reference_images
           IN  threads' = IF references # <<>> THEN Goto(t, "fp_compute", 0, references)
                          ELSE IF threads[t].op[1] = "stylise_image"
                          THEN Goto(t, "st_fallback", 0, <<>>)
                          ELSE Finish(t, "ValueError", PyNone)
        /\ UNCHANGED <<_image_params, heap, _fingerprint, _fallback_fingerprints,
                       output_dir, steps, thread_frame>>

\* Line 62: extractor.compute(references) comes back and its result is
\* assigned, or it raises.
FpCompute ==
    \E t \in Threads, e \in {"ok", "OSError"} :
        /\ threads[t].pc = "fp_compute"
        /\ IF e = "ok"
           THEN /\ _fingerprint' = compute(threads[t].local)
                /\ threads' = Goto(t, "fp_clear", 0, <<>>)
           ELSE /\ threads' = Finish(t, e, PyNone)
                /\ UNCHANGED _fingerprint
        /\ UNCHANGED <<_image_params, heap, _fallback_fingerprints, output_dir, steps,
                       thread_frame>>

\* Line 63: `self._fallback_fingerprints.clear()`
FpClear ==
    \E t \in Threads :
        /\ threads[t].pc = "fp_clear"
        /\ _fallback_fingerprints' = EmptyMap
        /\ threads' = Goto(t, "fp_return", 0, <<>>)
        /\ UNCHANGED <<_image_params, heap, _fingerprint, output_dir, steps,
                       thread_frame>>

\* Line 64: `return self._fingerprint`, to the caller or into stylise_image.
FpReturn ==
    \E t \in Threads :
        /\ threads[t].pc = "fp_return"
        /\ threads' = IF threads[t].op[1] = "stylise_image"
                      THEN Goto(t, "st_render", 0, _fingerprint)
                      ELSE Finish(t, "none", _fingerprint)
        /\ UNCHANGED <<_image_params, heap, _fingerprint, _fallback_fingerprints,
                       output_dir, steps, thread_frame>>

\* stylise_image, lines 73-77: the image's own fingerprint, computed if new.
StFallback ==
    \E t \in Threads :
        /\ threads[t].pc = "st_fallback"
        /\ LET input_path == threads[t].op[2]
               fallbacks == IF input_path \in DOMAIN _fallback_fingerprints
                            THEN _fallback_fingerprints
                            ELSE _fallback_fingerprints
                                     @@ (input_path :> compute(<<input_path>>))
           IN  /\ _fallback_fingerprints' = fallbacks
               /\ threads' = Goto(t, "st_render", 0, fallbacks[input_path])
        /\ UNCHANGED <<_image_params, heap, _fingerprint, output_dir, steps,
                       thread_frame>>

\* stylise_image, line 78: the parameters are fetched and the engine run.
StRender ==
    \E t \in Threads :
        /\ threads[t].pc = "st_render"
        /\ LET input_path == threads[t].op[2]
               pf == _params_for(_image_params, heap, input_path)
           IN  /\ _image_params' = pf.ip
               /\ heap' = pf.heap
               /\ output_dir' = WriteOutput(output_dir, Name(input_path),
                                            Render(input_path, threads[t].local,
                                                   pf.heap[pf.ref]))
               /\ threads' = Finish(t, "none", Name(input_path))
        /\ UNCHANGED <<_fingerprint, _fallback_fingerprints, steps, thread_frame>>

\* apply_feedback, line 123, and set_parameter, line 130:
\* `params = self._params_for(input_path)`
FetchParams ==
    \E t \in Threads :
        /\ threads[t].pc \in {"af_params", "sp_params"}
        /\ LET pf == _params_for(_image_params, heap, threads[t].op[2])
           IN  /\ _image_params' = pf.ip
               /\ heap' = pf.heap
               /\ threads' = Goto(t, IF threads[t].pc = "af_params" THEN "af_interpret"
                                     ELSE "sp_setattr", pf.ref, <<>>)
        /\ UNCHANGED <<_fingerprint, _fallback_fingerprints, output_dir, steps,
                       thread_frame>>

\* apply_feedback, line 124: the transport has answered and the interpreter
\* clones `params` as the object is now, and applies the answer to the clone.
AfInterpret ==
    \E t \in Threads :
        /\ threads[t].pc = "af_interpret"
        /\ threads' = Goto(t, "af_store", threads[t].ref,
                           interpret_feedback(threads[t].op[3], heap[threads[t].ref],
                                              threads[t].op[4]))
        /\ UNCHANGED <<_image_params, heap, _fingerprint, _fallback_fingerprints,
                       output_dir, steps, thread_frame>>

\* apply_feedback, lines 125-127: `if changed: self._image_params[input_path] = updated`
AfStore ==
    \E t \in Threads :
        /\ threads[t].pc = "af_store"
        /\ LET res == threads[t].local
               updated == IF res.copied THEN NewRef(heap) ELSE threads[t].ref
               hp == IF res.copied THEN heap @@ (updated :> res.params) ELSE heap
               ip == Commit(_image_params, threads[t].op[2], res.changed, updated)
               thr == Finish(t, "none", [changed |-> res.changed,
                                         messages |-> res.messages])
           IN  /\ _image_params' = ip
               /\ heap' = Live(ip, hp, thr)
               /\ threads' = thr
        /\ UNCHANGED <<_fingerprint, _fallback_fingerprints, output_dir, steps,
                       thread_frame>>

\* set_parameter, lines 131-133: setattr on the object fetched at line 130.
SpSetattr ==
    \E t \in Threads :
        /\ threads[t].pc = "sp_setattr"
        /\ LET name == threads[t].op[3]
               hp == [heap EXCEPT ![threads[t].ref] =
                          SetAttr(@, name, ClampedValue(name, threads[t].op[4]))]
               thr == Finish(t, "none", PyNone)
           IN  /\ heap' = Live(_image_params, hp, thr)
               /\ threads' = thr
        /\ UNCHANGED <<_image_params, _fingerprint, _fallback_fingerprints, output_dir,
                       steps, thread_frame>>

-----------------------------------------------------------------------------
(* src/src/gui.py: the debounced re-render of the selected image           *)
(*                                                                         *)
(* Time passes in ticks of 50 ms.  `restylise_timer` is the single-shot    *)
(* QTimer: the ticks left until its timeout, 0 once it has expired and the *)
(* timeout is about to be delivered, TimerOff while it is not running.     *)
(* `elapsed` (ticks since the last slider change, at most DebounceWindow)  *)
(* and `burst` are observations: the slider changes that followed each     *)
(* other within the window, the Parameters the last of them left, whether  *)
(* a fingerprint was available at each of them, and the renders performed  *)
(* since the first of them.                                                *)

DebounceWindow == 3             \* restylise_timer.start(150)
MaxGuiEvents == 4
TimerOff == -1

NoBurst == [changes |-> 0, left |-> PyNone, armed |-> TRUE, renders |-> <<>>]
NoPath == "None"                \* None where a Path is expected
\* `tasks` holds the FeedbackTasks started, in order, `owed` (an observation)
\* the images with a slider change that _schedule_restylise took up and no
\* render of that image since.
GuiIdle == [selected |-> NoPath, _pending_input |-> NoPath,
            restylise_timer |-> TimerOff, elapsed |-> DebounceWindow,
            burst |-> NoBurst, _active_feedback_jobs |-> 0, apply_button |-> TRUE,
            tasks |-> <<>>, owed |-> {}]

\* Values a slider hands to _slider_changed (value / scale).
GuiSliderInputs == {<<"strength", PyFloat(40)>>, <<"strength", PyFloat(-20)>>,
                    <<"contrast", PyFloat(10)>>}

\* How the stylise_image call of a selection change can end.
SelectionOutcomes == {<<"ok", "ok", "ok">>, <<"ok", "OSError", "ok">>}

\* Mutant: a timer that is already running keeps its deadline.
_schedule_restylise_keep_deadline(g, input_path, immediate, available) ==
    IF ~available THEN g
    ELSE [g EXCEPT !._pending_input = input_path,
                   !.restylise_timer = IF immediate THEN TimerOff
                                       ELSE IF @ > 0 THEN @ ELSE DebounceWindow]

\* _schedule_restylise up to its last statement: nothing without a
\* fingerprint, else the single pending input is overwritten and the timer
\* stopped and, unless the render is to happen at once, started afresh.
_schedule_restylise(g, input_path, immediate, available) ==
    IF ~available THEN g
    ELSE [g EXCEPT !._pending_input = input_path,
                   !.restylise_timer = IF immediate THEN TimerOff ELSE DebounceWindow]

\* _restylise_pending on the session value S: the pending input, if any, is
\* taken and rendered with the Parameters stored now; the theme refresh then
\* asks for the primary fingerprint (a ValueError is swallowed).
_restylise_pending(g, S) ==
    IF g._pending_input = NoPath THEN [gui |-> g, session |-> S, trace |-> <<>>]
    ELSE CHOOSE end \in UNION {
            { [gui |-> [g EXCEPT !._pending_input = NoPath,
                                 !.owed = @ \ {g._pending_input},
                                 !.burst.renders =
                                     Append(@, [input |-> g._pending_input,
                                                params |-> used,
                                                waited |-> g.elapsed])],
               session |-> [s.session EXCEPT !.fp = theme.fp,
                                             !.fallbacks = theme.fallbacks],
               trace |-> s.trace \o theme.trace]
              : theme \in {FingerprintOn(s.session.fp, s.session.fallbacks, "ok")},
                used \in {s.began.heap[s.began.ip[g._pending_input]]} }
            : s \in {StyliseOn(S, g._pending_input, "ok", "ok", "ok")} } : TRUE

\* What the handler of a GUI event leaves for the observer.
GuiObserve(c, exc, tr) ==
    /\ call' = c
    /\ raised' = exc
    /\ returned' = PyNone
    /\ trace' = tr
    /\ before' = Snapshot
    /\ progress' = <<>>
    /\ UNCHANGED <<threads, extractor, platform, transcriber, reference_dir, input_dir>>

\* The session's variables become the session value S.
Becomes(S) ==
    /\ _image_params' = S.ip
    /\ heap' = S.heap
    /\ _fingerprint' = S.fp
    /\ _fallback_fingerprints' = S.fallbacks
    /\ output_dir' = S.out

\* _slider_changed(name, value): set_parameter, _schedule_restylise,
\* _sync_sliders.  (An expired timer's timeout is delivered before any later
\* input is handled.)
_slider_changed ==
    \E nv \in GuiSliderInputs :
        /\ steps < MaxGuiEvents
        /\ gui.selected # NoPath
        /\ gui.restylise_timer # 0
        /\ LET input_path == gui.selected
               pf == _params_for(_image_params, heap, input_path)
               hp == [pf.heap EXCEPT ![pf.ref] =
                          SetAttr(@, nv[1], ClampedValue(nv[1], nv[2]))]
               same == gui.burst.changes >= 1 /\ gui.elapsed < DebounceWindow
               burst == [changes |-> IF same THEN gui.burst.changes + 1 ELSE 1,
                         left |-> hp[pf.ref],
                         armed |-> HasFingerprintResult /\ (same => gui.burst.armed),
                         renders |-> IF same THEN gui.burst.renders ELSE <<>>]
           IN  /\ Becomes([Session EXCEPT !.ip = pf.ip, !.heap = hp])
               /\ gui' = _schedule_restylise(
                              [gui EXCEPT !.elapsed = 0, !.burst = burst,
                                          !.owed = IF HasFingerprintResult
                                                   THEN @ \cup {input_path} ELSE @],
                              input_path, FALSE, HasFingerprintResult)
               /\ GuiObserve(<<"_slider_changed", nv[1], nv[2]>>, "none", <<>>)
               /\ steps' = steps + 1

\* 50 ms pass.
Tick ==
    /\ gui.restylise_timer # 0
    /\ gui.restylise_timer > 0 \/ gui.elapsed < DebounceWindow
    /\ gui' = [gui EXCEPT !.restylise_timer = IF @ > 0 THEN @ - 1 ELSE @,
                          !.elapsed = Min2(DebounceWindow, @ + 1)]
    /\ UNCHANGED <<_image_params, heap, _fingerprint, _fallback_fingerprints,
                   reference_dir, input_dir, output_dir, call, raised, returned, trace,
                   before, progress, steps, threads, extractor, platform,
                   transcriber>>

\* restylise_timer.timeout -> _restylise_pending
Timeout ==
    /\ gui.restylise_timer = 0
    /\ \E r \in {_restylise_pending([gui EXCEPT !.restylise_timer = TimerOff], Session)} :
        /\ Becomes(r.session)
        /\ gui' = r.gui
        /\ GuiObserve(<<"_restylise_pending">>, "none", r.trace)
    /\ UNCHANGED steps

\* The nine set_parameter(input_path, slider, 0.0) calls of the Reset button.
ResetSliders(params) ==
    [f \in DOMAIN params |->
        IF f \in SliderNames THEN AttrValue(f, ClampedValue(f, PyFloat(0)))
        ELSE params[f]]

\* StyleTransferWindow.reset_parameters: the sliders of the selected image go
\* to 0 and the image is rendered at once.
ResetButton ==
    /\ steps < MaxGuiEvents
    /\ gui.selected # NoPath
    /\ gui.restylise_timer # 0
    /\ LET input_path == gui.selected
           pf == _params_for(_image_params, heap, input_path)
           S == [Session EXCEPT !.ip = pf.ip,
                                !.heap = [pf.heap EXCEPT ![pf.ref] = ResetSliders(@)]]
           g == _schedule_restylise(gui, input_path, TRUE, HasFingerprintResult)
       IN  \E r \in {IF HasFingerprintResult THEN _restylise_pending(g, S)
                     ELSE [gui |-> g, session |-> S, trace |-> <<>>]} :
               /\ Becomes(r.session)
               /\ gui' = [r.gui EXCEPT !.burst = NoBurst]
               /\ GuiObserve(<<"reset_parameters">>, "none", r.trace)
    /\ steps' = steps + 1

\* _on_selection_changed: an image without an output file is rendered, and
\* the sliders are set from its Parameters.
SelectionChanged ==
    \E x \in input_dir, oc \in SelectionOutcomes :
        /\ steps < MaxGuiEvents
        /\ x # gui.selected
        /\ gui.restylise_timer # 0
        /\ \E s \in {IF Name(x) \in DOMAIN output_dir
                     THEN [session |-> Session, raised |-> "none", trace |-> <<>>]
                     ELSE StyliseOn(Session, x, oc[1], oc[2], oc[3])} :
            /\ IF s.raised = "none"
               THEN \E pf \in {_params_for(s.session.ip, s.session.heap, x)} :
                        Becomes([s.session EXCEPT !.ip = pf.ip, !.heap = pf.heap])
               ELSE Becomes(s.session)
            /\ GuiObserve(<<"_on_selection_changed", x>>, s.raised, s.trace)
        /\ gui' = [gui EXCEPT !.selected = x, !.burst = NoBurst]
        /\ steps' = steps + 1

-----------------------------------------------------------------------------
(* src/src/gui.py: feedback tasks                                          *)
(*                                                                         *)
(* A FeedbackTask runs session.apply_feedback on a thread of the pool and  *)
(* emits `finished`; the signal is handled on the GUI thread by            *)
(* _on_feedback_finished.  A task is a record of what it was started with  *)
(* and of how often it ran, what it emitted and how many of its signals    *)
(* were handled.                                                           *)

MaxTasks == 2
\* The text of the feedback box or of a voice command.
GuiFeedbacks == {"   ", "warmer"}
\* What the interpreter answers while a task runs.
GuiPayloads == {<<>>, [grayscale |-> TRUE, rotation |-> 90], [strength_delta |-> 20]}

\* apply_feedback(feedback, input_path) on the session value S.
FeedbackOn(S, feedback, input_path, llm_result) ==
    CHOOSE end \in UNION {
        { [session |-> [S EXCEPT !.ip = ip, !.heap = Collect(ip, hp)],
           changed |-> res.changed, messages |-> res.messages]
          : ip \in {Commit(pf.ip, input_path, res.changed,
                           IF res.copied THEN NewRef(pf.heap) ELSE pf.ref)},
            hp \in {IF res.copied THEN pf.heap @@ (NewRef(pf.heap) :> res.params)
                    ELSE pf.heap} }
        : pf \in {_params_for(S.ip, S.heap, input_path)},
          res \in UNION {{interpret_feedback(feedback, q.heap[q.ref], llm_result)}
                           : q \in {_params_for(S.ip, S.heap, input_path)}} } : TRUE

\* FeedbackTask.run: the session afterwards and the `finished` signals
\* emitted.  A call that raises has got as far as the interpreter: the
\* image has its record.
FeedbackTask_run(S, task, llm_result, outcome) ==
    IF outcome = "raises"
    THEN CHOOSE end \in {[session |-> [S EXCEPT !.ip = pf.ip, !.heap = pf.heap],
                          emitted |-> << <<FALSE, <<"error">> >> >>]
                            : pf \in {_params_for(S.ip, S.heap, task.input_path)}} : TRUE
    ELSE CHOOSE end \in {[session |-> done.session,
                          emitted |-> << <<done.changed, done.messages>> >>]
                            : done \in {FeedbackOn(S, task.feedback, task.input_path,
                                                   llm_result)}} : TRUE

_start_processing_visuals(g) ==
    [g EXCEPT !.apply_button = IF g._active_feedback_jobs = 0 THEN FALSE ELSE @,
              !._active_feedback_jobs = @ + 1]

\* Mutant: the button is enabled again by every task that ends.
_stop_processing_visuals_eager(g) ==
    IF g._active_feedback_jobs = 0 THEN g
    ELSE [g EXCEPT !._active_feedback_jobs = @ - 1, !.apply_button = TRUE]

_stop_processing_visuals(g) ==
    IF g._active_feedback_jobs = 0 THEN g
    ELSE [g EXCEPT !._active_feedback_jobs = @ - 1,
                   !.apply_button = IF g._active_feedback_jobs = 1 THEN TRUE ELSE @]

\* apply_feedback (the button, which must be enabled to be clicked) and
\* _handle_voice_command: blank text and a missing selection end the
\* handler, else a task is started.
_queue_feedback_application ==
    \E text \in GuiFeedbacks, origin \in {"manual", "voice"} :
        /\ steps < MaxGuiEvents
        /\ gui.restylise_timer # 0
        /\ origin = "manual" => gui.apply_button
        /\ Len(gui.tasks) < MaxTasks
        /\ gui' = IF Strip(text) = "" \/ gui.selected = NoPath THEN gui
                  ELSE [_start_processing_visuals(gui) EXCEPT
                           !.tasks = Append(@, [feedback |-> Strip(text),
                                                input_path |-> gui.selected,
                                                origin |-> origin, ran |-> 0,
                                                emitted |-> <<>>, handled |-> 0])]
        /\ GuiObserve(<<"_queue_feedback_application", text, origin>>, "none", <<>>)
        /\ steps' = steps + 1
        /\ UNCHANGED <<_image_params, heap, _fingerprint, _fallback_fingerprints,
                       output_dir>>

\* A pool thread runs a task that was started.
FeedbackTaskRun ==
    \E i \in DOMAIN gui.tasks, llm_result \in GuiPayloads, outcome \in {"returns", "raises"} :
        /\ gui.tasks[i].ran = 0
        /\ \E r \in {FeedbackTask_run(Session, gui.tasks[i], llm_result, outcome)} :
            /\ Becomes(r.session)
            /\ gui' = [gui EXCEPT !.tasks[i].ran = 1, !.tasks[i].emitted = r.emitted]
        /\ GuiObserve(<<"FeedbackTask.run", i>>, "none", <<>>)
        /\ UNCHANGED steps

\* The GUI thread handles a `finished` signal: _on_feedback_finished.
_on_feedback_finished ==
    \E i \in DOMAIN gui.tasks :
        /\ gui.tasks[i].handled < Len(gui.tasks[i].emitted)
        /\ gui.restylise_timer # 0
        /\ LET task == gui.tasks[i]
               success == task.emitted[task.handled + 1][1]
               stopped == [_stop_processing_visuals(gui) EXCEPT
                              !.tasks[i].handled = @ + 1, !.burst = NoBurst]
               g == IF success
                    THEN _schedule_restylise(stopped, task.input_path, TRUE,
                                             HasFingerprintResult)
                    ELSE stopped
           IN  \E r \in {IF success /\ HasFingerprintResult
                         THEN _restylise_pending(g, Session)
                         ELSE [gui |-> g, session |-> Session, trace |-> <<>>]} :
                   /\ Becomes(r.session)
                   /\ gui' = r.gui
                   /\ GuiObserve(<<"_on_feedback_finished", i>>, "none", r.trace)
        /\ UNCHANGED steps

-----------------------------------------------------------------------------
(* src/src/fingerprint.py: the arithmetic of compute                       *)
(*                                                                         *)
(* The arrays compute stacks are np.float32 (_embed returns the model's    *)
(* float32 output, _color_stats reduces a float32 array), and ndarray.mean *)
(* and ndarray.std keep that type.  A float32 number is [m, e], standing   *)
(* for m * 2^e with 2^23 <= |m| < 2^24, or m = 0 and e = 0.  One component *)
(* of each vector is modelled; the aggregates act on every component alike.*)
(* Overflow, underflow and NaN do not occur for values of size at most 1.  *)

Precision == 24            \* significand bits of np.float32
Pow2(k) == 2^k
Abs(n) == IF n < 0 THEN -n ELSE n
Sign(n) == IF n < 0 THEN -1 ELSE 1
FZero == [m |-> 0, e |-> 0]

\* The number of bits of n > 0.
BitLen(n) == CHOOSE k \in 1..31 : Pow2(k - 1) <= n /\ (k = 31 \/ n < Pow2(k))

\* Round to nearest, ties to even: the float32 of sign sg nearest to
\* n * 2^e (n > 0), or to a number strictly between n * 2^e and
\* (n + 1) * 2^e when `sticky`.
Norm(sg, n, e, sticky) ==
    IF n = 0 THEN FZero
    ELSE IF BitLen(n) <= Precision
    THEN [m |-> sg * n * Pow2(Precision - BitLen(n)), e |-> e - (Precision - BitLen(n))]
    ELSE LET s == BitLen(n) - Precision
             q == n \div Pow2(s)
             r == n % Pow2(s)
             half == Pow2(s - 1)
             up == r > half \/ (r = half /\ (sticky \/ q % 2 = 1))
             q1 == IF up THEN q + 1 ELSE q
         IN  IF q1 = Pow2(Precision)
             THEN [m |-> sg * Pow2(Precision - 1), e |-> e + s + 1]
             ELSE [m |-> sg * q1, e |-> e + s]

\* np.float32(n * 2^e) for an integer n.
F32(n, e) == Norm(Sign(n), Abs(n), e, FALSE)

\* x + y in float32, x the operand with the larger exponent: y is shifted
\* right behind three guard bits, the bits shifted out leaving a sticky mark.
AddOrdered(x, y) ==
    LET gap == x.e - y.e
        X == Abs(x.m) * 8
        Y == (Abs(y.m) * 8) \div Pow2(gap)
        lost == (Abs(y.m) * 8) % Pow2(gap) # 0
        same == Sign(x.m) = Sign(y.m)
        n == IF same THEN X + Y ELSE IF lost THEN X - Y - 1 ELSE X - Y
    IN  IF gap > Precision + 2 THEN x
        ELSE Norm(IF n < 0 THEN -Sign(x.m) ELSE Sign(x.m), Abs(n), x.e - 3, lost)

FAdd(a, b) ==
    IF a.m = 0 THEN b
    ELSE IF b.m = 0 THEN a
    ELSE IF a.e >= b.e THEN AddOrdered(a, b) ELSE AddOrdered(b, a)

FNeg(a) == [a EXCEPT !.m = -@]
FSub(a, b) == FAdd(a, FNeg(b))

\* a * b in float32: the 48-bit product of the significands, in halves.
FMul(a, b) ==
    IF a.m = 0 \/ b.m = 0 THEN FZero
    ELSE LET ah == Abs(a.m) \div 4096
             al == Abs(a.m) % 4096
             bh == Abs(b.m) \div 4096
             bl == Abs(b.m) % 4096
             mid == ah * bl + al * bh
             lo == (mid % 4096) * 4096 + al * bl
             hi == ah * bh + mid \div 4096 + lo \div Pow2(24)
             lo24 == lo % Pow2(24)
         IN  Norm(Sign(a.m) * Sign(b.m), hi * 64 + lo24 \div Pow2(18),
                  a.e + b.e + 18, lo24 % Pow2(18) # 0)

\* a / count in float32, count a positive integer.
FDivInt(a, count) ==
    IF a.m = 0 THEN FZero
    ELSE LET k == BitLen(count) + 2
             num == Abs(a.m) * Pow2(k)
         IN  Norm(Sign(a.m), num \div count, a.e - k, num % count # 0)

\* np.add.reduce along the image axis: the rows are added one after another.
RECURSIVE FSumTo(_, _)
FSumTo(xs, n) == IF n = 1 THEN xs[1] ELSE FAdd(FSumTo(xs, n - 1), xs[n])

\* Mutant: the mean is left undivided.
FMean_sum(xs) == FSumTo(xs, Len(xs))

\* ndarray.mean(axis=0)
FMean(xs) == FDivInt(FSumTo(xs, Len(xs)), Len(xs))

\* The variance ndarray.std takes the root of: the mean of the squared
\* deviations from the (float32) mean.
FVar(xs) ==
    CHOOSE v \in { FMean([i \in 1..Len(xs) |-> FMul(FSub(xs[i], mu), FSub(xs[i], mu))])
                   : mu \in {FMean(xs)} } : TRUE

\* np.sqrt, kept as a term: the root of a float32 is 0 exactly when the
\* number is.
FSqrt(v) == [root_of |-> v]

\* ndarray.std(axis=0)
FStd(xs) == FSqrt(FVar(xs))

-----------------------------------------------------------------------------
(* src/src/fingerprint.py: FingerprintExtractor                            *)

MaxImages == 3
MaxExtractorOps == 3

\* Image files an extractor is handed, and what the model and the pixel
\* statistics give for each (0.5, -0.75, 0.9 / 0.25, 0.5, 0.45 / ...).
Pictures == {"p1.jpg", "p2.jpg", "p3.jpg"}
_embed(path) ==
    CASE path = "p1.jpg" -> F32(1, -1)
      [] path = "p2.jpg" -> F32(-3, -2)
      [] path = "p3.jpg" -> F32(15099494, -24)
_color_stats(path) ==
    CASE path = "p1.jpg" -> [mean |-> F32(1, -2), std |-> F32(1, -3)]
      [] path = "p2.jpg" -> [mean |-> F32(1, -1), std |-> F32(1, -2)]
      [] path = "p3.jpg" -> [mean |-> F32(15099494, -25), std |-> F32(14763950, -27)]

\* What `images` yields when compute iterates over it.
ImageSeqs == UNION {[1..n -> Pictures] : n \in 0..MaxImages}

\* Mutant: color_std is the deviation of the channel means across images.
StyleFingerprint_std_of_means(images) ==
    LET n == Len(images)
    IN  [clip_mean |-> FMean([i \in 1..n |-> _embed(images[i])]),
         clip_std |-> FStd([i \in 1..n |-> _embed(images[i])]),
         color_mean |-> FMean([i \in 1..n |-> _color_stats(images[i]).mean]),
         color_std |-> FStd([i \in 1..n |-> _color_stats(images[i]).mean])]

\* Lines 159-168: the three stacks and the StyleFingerprint built from them.
StyleFingerprint(images) ==
    LET n == Len(images)
    IN  [clip_mean |-> FMean([i \in 1..n |-> _embed(images[i])]),
         clip_std |-> FStd([i \in 1..n |-> _embed(images[i])]),
         color_mean |-> FMean([i \in 1..n |-> _color_stats(images[i]).mean]),
         color_std |-> FMean([i \in 1..n |-> _color_stats(images[i]).std])]

\* compute is deterministic in what `images` yields: its results, tabulated.
Fingerprints == [images \in ImageSeqs \ {<<>>} |-> StyleFingerprint(images)] @@ EmptyMap

\* Mutant: nothing to aggregate gives a fingerprint of zeros.
ExtractorCompute_degenerate(images) ==
    IF images = <<>>
    THEN [raised |-> "none",
          returned |-> [clip_mean |-> FZero, clip_std |-> FSqrt(FZero),
                        color_mean |-> FZero, color_std |-> FZero]]
    ELSE [raised |-> "none", returned |-> Fingerprints[images]]

\* compute(images): lines 156-157 raise when the loop collected nothing.
ExtractorCompute(images) ==
    IF images = <<>> THEN [raised |-> "ValueError", returned |-> PyNone]
    ELSE [raised |-> "none", returned |-> Fingerprints[images]]

\* Mutant: compute loads the model anew before it embeds.
ComputeTrace_reload(inst, images) ==
    << <<"create_model_and_transforms", inst.model_name, inst.pretrained>> >>
        \o [i \in 1..(2 * Len(images)) |->
               IF i % 2 = 1 THEN <<"Image.open", images[(i + 1) \div 2]>>
               ELSE <<"encode_image", images[i \div 2]>>]

\* What compute calls on its way (lines 149-154): each image is opened and
\* run through the instance's model.
ComputeTrace(inst, images) ==
    [i \in 1..(2 * Len(images)) |->
        IF i % 2 = 1 THEN <<"Image.open", images[(i + 1) \div 2]>>
        ELSE <<"encode_image", images[i \div 2]>>]

\* Two of the eleven files _REQUIRED_PATTERNS names.
_REQUIRED_PATTERNS == {"open_clip_config.json", "open_clip_model.safetensors"}
_has_required_files(files) == _REQUIRED_PATTERNS \subseteq files

\* The snapshot of _MODEL_REPO under cache_dir: absent, or a directory
\* holding some files.
NoSnapshot == [snapshot |-> FALSE, files |-> {}]
Caches == {NoSnapshot} \cup {[snapshot |-> TRUE, files |-> f] : f \in SUBSET _REQUIRED_PATTERNS}

\* How snapshot_download(local_files_only=False) can end: the files it got
\* into the snapshot, and whether it raised.
FetchOutcomes == [raises : BOOLEAN, delivered : SUBSET _REQUIRED_PATTERNS]
Fetched(cache, fetch) ==
    [snapshot |-> cache.snapshot \/ ~fetch.raises \/ fetch.delivered # {},
     files |-> cache.files \cup fetch.delivered]

\* The two snapshot_download calls, as the trace shows them.
LocalAttempt(cache) == <<"snapshot_download", "local_files_only", cache.snapshot>>
OnlineAttempt(fetch) == <<"snapshot_download", "online", ~fetch.raises>>

\* Mutant: the hub is asked first, the local snapshot only if that fails.
_ensure_weights_available_online_first(cache, hub, fetch) ==
    IF ~hub
    THEN [cache |-> cache, path |-> "None", raised |-> "none", trace |-> <<>>]
    ELSE LET after == Fetched(cache, fetch)
         IN  IF ~fetch.raises /\ _has_required_files(after.files)
             THEN [cache |-> after, path |-> "snapshot", raised |-> "none",
                   trace |-> <<OnlineAttempt(fetch)>>]
             ELSE IF after.snapshot /\ _has_required_files(after.files)
             THEN [cache |-> after, path |-> "snapshot", raised |-> "none",
                   trace |-> <<OnlineAttempt(fetch), LocalAttempt(after)>>]
             ELSE [cache |-> after, path |-> "None", raised |-> "RuntimeError",
                   trace |-> <<OnlineAttempt(fetch), LocalAttempt(after)>>]

\* _ensure_weights_available: the cache afterwards, the path returned
\* ("None": none), what it raises and the snapshot_download calls it makes.
_ensure_weights_available(cache, hub, fetch) ==
    IF ~hub
    THEN [cache |-> cache, path |-> "None", raised |-> "none", trace |-> <<>>]
    ELSE IF cache.snapshot /\ _has_required_files(cache.files)
    THEN [cache |-> cache, path |-> "snapshot", raised |-> "none",
          trace |-> <<LocalAttempt(cache)>>]
    ELSE LET after == Fetched(cache, fetch)
         IN  IF ~fetch.raises /\ _has_required_files(after.files)
             THEN [cache |-> after, path |-> "snapshot", raised |-> "none",
                   trace |-> <<LocalAttempt(cache), OnlineAttempt(fetch)>>]
             ELSE [cache |-> after, path |-> "None", raised |-> "RuntimeError",
                   trace |-> <<LocalAttempt(cache), OnlineAttempt(fetch)>>]

\* The provider calls among the entries of a trace.
Resolutions(tr) == SelectSeq(tr, LAMBDA c : c[1] = "snapshot_download")
Creations(tr) == SelectSeq(tr, LAMBDA c : c[1] = "create_model_and_transforms")

\* The extractors constructed so far over one cache directory.  `hub`:
\* huggingface_hub can be imported; `offline`: _force_offline_mode has run;
\* `resolved`: a construction has resolved the weights; `prior`: resolved and
\* cache as they were when the last operation began.  An instance counts the
\* provider calls made on its behalf.
NoExtractor == [hub |-> TRUE, cache |-> NoSnapshot, offline |-> FALSE, instances |-> <<>>,
                resolved |-> FALSE,
                prior |-> [resolved |-> FALSE, cache |-> NoSnapshot]]
ExtractorInits == {[NoExtractor EXCEPT !.hub = h, !.cache = c, !.prior.cache = c]
                       : h \in BOOLEAN, c \in Caches}

\* What no method of the extractor touches.
extractor_frame == <<_image_params, heap, _fingerprint, _fallback_fingerprints,
                     reference_dir, input_dir, output_dir, before, progress, threads, gui,
                     platform, transcriber>>

\* FingerprintExtractor(cache_dir=..., prefer_offline_cache=prefer)
Construct ==
    \E prefer \in BOOLEAN, fetch \in FetchOutcomes, created \in {"ok", "OSError"} :
        /\ steps < MaxExtractorOps
        /\ \E res \in {IF prefer
                       THEN _ensure_weights_available(extractor.cache, extractor.hub, fetch)
                       ELSE [cache |-> extractor.cache, path |-> "None",
                             raised |-> "none", trace |-> <<>>]} :
            LET model_name == IF res.path # "None" THEN "local-dir:snapshot" ELSE "ViT-B-32"
                pretrained == IF res.path # "None" THEN "None" ELSE "laion2b_s34b_b79k"
                tr == IF res.raised # "none" THEN res.trace
                      ELSE res.trace
                               \o << <<"create_model_and_transforms", model_name, pretrained>> >>
                exc == IF res.raised # "none" THEN res.raised
                       ELSE IF created = "ok" THEN "none" ELSE created
                inst == [model_name |-> model_name, pretrained |-> pretrained,
                         _local_repo_path |-> res.path,
                         resolutions |-> Len(Resolutions(tr)),
                         creations |-> Len(Creations(tr)), computes |-> 0]
            IN  /\ extractor' =
                       [extractor EXCEPT
                           !.cache = res.cache,
                           !.offline = @ \/ res.path # "None",
                           !.resolved = @ \/ res.path # "None",
                           !.instances = IF exc = "none" THEN Append(@, inst) ELSE @,
                           !.prior = [resolved |-> extractor.resolved,
                                      cache |-> extractor.cache]]
                /\ call' = <<"__init__", prefer>>
                /\ raised' = exc
                /\ returned' = IF exc = "none" THEN Len(extractor.instances) + 1 ELSE 0
                /\ trace' = tr
        /\ steps' = steps + 1
        /\ UNCHANGED extractor_frame

\* extractor.compute(images) on the instance numbered i.
Compute ==
    \E i \in DOMAIN extractor.instances, images \in ImageSeqs :
        /\ steps < MaxExtractorOps
        /\ \E tr \in {ComputeTrace(extractor.instances[i], images)},
              res \in {ExtractorCompute(images)} :
            /\ extractor' =
                   [extractor EXCEPT
                       !.instances[i].resolutions = @ + Len(Resolutions(tr)),
                       !.instances[i].creations = @ + Len(Creations(tr)),
                       !.instances[i].computes = @ + 1,
                       !.prior = [resolved |-> extractor.resolved,
                                  cache |-> extractor.cache]]
            /\ call' = <<"compute", i, images>>
            /\ raised' = res.raised
            /\ returned' = res.returned
            /\ trace' = tr
        /\ steps' = steps + 1
        /\ UNCHANGED extractor_frame

-----------------------------------------------------------------------------
(* src/src/voice_transcriber.py: FasterWhisperTranscriber._ensure_model    *)
(* called from several threads.  A thread is at a line of the method; the  *)
(* constructor of WhisperModel runs while the others go on, and its result *)
(* is assigned to self._model in a step of its own.                        *)

MaxTranscribeCalls == 3
Callers == {1, 2}

\* A caller that is in no call.
Away == [pc |-> "idle", attempts |-> 0, began |-> 0, local |-> 0]

\* No transcriber has been constructed; _model 0 models None, _lock 0 a
\* free lock.  `built` counts the WhisperModel instances constructed, and an
\* instance is named by its number; `log` holds the calls that have ended.
NoTranscriber ==
    [made |-> FALSE, installed |-> TRUE, device |-> "cpu", compute_type |-> "int8",
     _model |-> 0, _lock |-> 0, built |-> 0, calls |-> 0,
     frames |-> [t \in Callers |-> Away], log |-> <<>>]

transcriber_frame == <<_image_params, heap, _fingerprint, _fallback_fingerprints,
                       reference_dir, input_dir, output_dir, call, raised, returned, trace,
                       before, progress, steps, threads, gui, extractor, platform>>

\* What the constructor of WhisperModel can end with.
LoadOutcomes == {"ok", "ValueError", "RuntimeError"}

\* FasterWhisperTranscriber(device=..., compute_type=...), in a process where
\* faster_whisper could be imported or not.
FasterWhisperTranscriber ==
    /\ ~transcriber.made
    /\ \E installed \in BOOLEAN, settings \in {<<"cuda", "float16">>, <<"cpu", "int8">>} :
           transcriber' = [transcriber EXCEPT !.made = TRUE, !.installed = installed,
                                              !.device = settings[1],
                                              !.compute_type = settings[2]]
    /\ UNCHANGED transcriber_frame

\* The call of caller t ends: with the model it returns, or with an
\* exception; `release` tells whether it leaves the `with self._lock` block.
Leave(tr, t, outcome, model, release) ==
    [tr EXCEPT !.frames[t] = Away,
               !._lock = IF release THEN 0 ELSE @,
               !.log = Append(@, [caller |-> t, outcome |-> outcome, model |-> model,
                                  attempts |-> tr.frames[t].attempts,
                                  began |-> tr.frames[t].began,
                                  stored |-> tr._model])]

\* transcribe(audio), line 151: the call of _ensure_model.
transcribe(t) ==
    /\ transcriber.made
    /\ transcriber.frames[t].pc = "idle"
    /\ transcriber.calls < MaxTranscribeCalls
    /\ transcriber' = [transcriber EXCEPT !.calls = @ + 1,
                                          !.frames[t] = [Away EXCEPT !.pc = "98",
                                                              !.began = Len(transcriber.log)]]
    /\ UNCHANGED transcriber_frame

\* Lines 98-104: the check outside the lock.
CheckModel(t) ==
    /\ transcriber.frames[t].pc = "98"
    /\ transcriber' =
           IF transcriber._model # 0
           THEN Leave(transcriber, t, "returned", transcriber._model, FALSE)
           ELSE IF ~transcriber.installed
           THEN Leave(transcriber, t, "not installed", 0, FALSE)
           ELSE [transcriber EXCEPT !.frames[t].pc = "106"]
    /\ UNCHANGED transcriber_frame

\* Line 106: `with self._lock`, once the lock is free.
AcquireLock(t) ==
    /\ transcriber.frames[t].pc = "106"
    /\ transcriber._lock = 0
    /\ transcriber' = [transcriber EXCEPT !._lock = t, !.frames[t].pc = "107"]
    /\ UNCHANGED transcriber_frame

\* Mutant: the model is not looked at again under the lock.
UnderLock_unchecked(model) == "117"

\* Lines 107-108: where the caller goes on under the lock.
UnderLock(model) == IF model # 0 THEN "return" ELSE "117"

CheckUnderLock(t) ==
    /\ transcriber.frames[t].pc = "107"
    /\ transcriber' =
           IF UnderLock(transcriber._model) = "return"
           THEN Leave(transcriber, t, "returned", transcriber._model, TRUE)
           ELSE [transcriber EXCEPT !.frames[t].pc = "117"]
    /\ UNCHANGED transcriber_frame

\* The caller holds a new instance that is about to be assigned.
Built(tr, t) ==
    [tr EXCEPT !.built = @ + 1, !.frames[t].local = tr.built + 1,
               !.frames[t].attempts = @ + 1, !.frames[t].pc = "store"]

\* Lines 116-124 and 131-132: WhisperModel(self.model_size, **kwargs) with
\* the settings of the transcriber.  A ValueError switches to cpu and int8
\* for a second attempt, unless int8 was the compute type already; any other
\* exception leaves the method as it is.
LoadModel(t) ==
    /\ transcriber.frames[t].pc = "117"
    /\ \E outcome \in LoadOutcomes :
           transcriber' =
               IF outcome = "ok" THEN Built(transcriber, t)
               ELSE LET tried == [transcriber EXCEPT !.frames[t].attempts = @ + 1]
                    IN  IF outcome = "RuntimeError"
                        THEN Leave(tried, t, "RuntimeError", 0, TRUE)
                        ELSE IF transcriber.compute_type # "int8"
                        THEN [tried EXCEPT !.compute_type = "int8", !.device = "cpu",
                                           !.frames[t].pc = "126"]
                        ELSE Leave(tried, t, "TranscriptionError", 0, TRUE)
    /\ UNCHANGED transcriber_frame

\* Lines 125-130: the second attempt; whatever it raises becomes a
\* TranscriptionError.
LoadModelAgain(t) ==
    /\ transcriber.frames[t].pc = "126"
    /\ \E outcome \in LoadOutcomes :
           transcriber' =
               IF outcome = "ok" THEN Built(transcriber, t)
               ELSE Leave([transcriber EXCEPT !.frames[t].attempts = @ + 1], t,
                          "TranscriptionError", 0, TRUE)
    /\ UNCHANGED transcriber_frame

\* Lines 117 and 126: the assignment `self._model = ...`.
StoreModel(t) ==
    /\ transcriber.frames[t].pc = "store"
    /\ transcriber' = [transcriber EXCEPT !._model = transcriber.frames[t].local,
                                          !.frames[t].pc = "133"]
    /\ UNCHANGED transcriber_frame

\* Line 133: `return self._model`, leaving the lock.
ReturnModel(t) ==
    /\ transcriber.frames[t].pc = "133"
    /\ transcriber' = Leave(transcriber, t, "returned", transcriber._model, TRUE)
    /\ UNCHANGED transcriber_frame

-----------------------------------------------------------------------------
(* Specifications                                                          *)

\* What parse_feedback_with_llm can answer (after _normalize_parameter_update).
Payloads ==
    { <<>>,
      [strength_delta |-> 250, saturation_delta |-> -30],
      [brightness_delta |-> -250, shadow_delta |-> 15],
      [highlight_delta |-> 120, contrast_delta |-> -120,
       messages |-> <<"less contrast">>],
      [clarity_delta |-> 70, temperature_delta |-> -70],
      [grain_strength |-> 150],
      [grayscale |-> TRUE, flip_horizontal |-> TRUE, flip_vertical |-> FALSE],
      [rotation |-> 30],
      [rotation |-> -10],
      [rotation |-> 720],
      [reset |-> TRUE, strength_delta |-> 20, rotation |-> 90],
      [reset |-> FALSE],
      [reset |-> FALSE, grayscale |-> TRUE, rotation |-> 30],
      [messages |-> <<"nothing to change">>] }

Feedbacks == {"", "   ", "warmer"}

AllSetParameterInputs ==
    (SliderNames \X SliderInputs)
        \cup ({"rotation_degrees"} \X RotationInputs)
        \cup (BoolNames \X {PyBool(TRUE), PyBool(FALSE)})

\* The first image is driven through every field, value and payload of the
\* model, the other images through a few of each kind.
SetParameterInputs(x) ==
    IF x = "a.jpg" THEN AllSetParameterInputs
    ELSE {<<"strength", PyInt(150)>>, <<"rotation_degrees", PyInt(-500)>>,
          <<"flip_vertical", PyBool(TRUE)>>}

PayloadsFor(x) ==
    IF x = "a.jpg" THEN Payloads
    ELSE {<<>>, [strength_delta |-> 250, saturation_delta |-> -30], [rotation |-> 30],
          [reset |-> TRUE, strength_delta |-> 20, rotation |-> 90]}

\* The session right after construction, over directories that already exist.
InitSession ==
    /\ _image_params = EmptyMap
    /\ heap = EmptyMap
    /\ _fingerprint = NoFingerprint
    /\ _fallback_fingerprints = EmptyMap
    /\ reference_dir \in SUBSET RefFiles
    /\ input_dir = Images
    /\ output_dir = EmptyMap
    /\ call = <<"__init__">>
    /\ raised = "none"
    /\ returned = PyNone
    /\ trace = <<>>
    /\ before = [params |-> EmptyMap, fingerprint |-> NoFingerprint,
                 fallbacks |-> EmptyMap, refs |-> EmptyMap, outputs |-> EmptyMap]
    /\ progress = <<>>
    /\ steps = 0
    /\ threads = NoThreads
    /\ gui = GuiIdle
    /\ transcriber = NoTranscriber

Init == InitSession /\ extractor = NoExtractor /\ platform = "posix"

SetParameter ==
    \E x \in Images : \E nv \in SetParameterInputs(x) : set_parameter(x, nv[1], nv[2])
CurrentParameters == \E x \in Images : current_parameters(x)
\* The transport is asked, and answers, only for a text that is not blank.
ApplyFeedback ==
    \E t \in Feedbacks, x \in Images :
        \E llm \in (IF Strip(t) = "" THEN {<<>>} ELSE PayloadsFor(x)) :
            apply_feedback(t, x, llm)
ResetParameters == reset_parameters
ResetParametersFor == \E x \in Images : reset_parameters_for(x)

\* An outcome is drawn for a collaborator call only where the call is made.
StyliseImage ==
    \E x \in Images, r \in RenderOutcomes :
        \E e1 \in (IF _fingerprint = NoFingerprint /\ _gather_reference_images # <<>>
                    THEN ExtractorOutcomes ELSE {"ok"}) :
            \E e2 \in (IF FingerprintResult(e1).raised = "ValueError"
                           /\ x \notin DOMAIN _fallback_fingerprints
                        THEN ExtractorOutcomes ELSE {"ok"}) :
                stylise_image(x, e1, e2, r)

\* A render of the image file kept outside the input directory.
StyliseOutsideImage ==
    \E x \in OutsidePaths, r \in RenderOutcomes :
        \E e1 \in (IF _fingerprint = NoFingerprint /\ _gather_reference_images # <<>>
                    THEN ExtractorOutcomes ELSE {"ok"}) :
            \E e2 \in (IF FingerprintResult(e1).raised = "ValueError"
                           /\ x \notin DOMAIN _fallback_fingerprints
                        THEN ExtractorOutcomes ELSE {"ok"}) :
                stylise_image(x, e1, e2, r)

\* One stylise_image call of the batch meets one of these outcomes (of the
\* primary computation, the fallback computation and the render), the other
\* calls succeed.
BatchOutcomes ==
    {AllOk, <<"OSError", "ok", "ok">>, <<"ValueError", "ok", "ok">>,
     <<"ok", "OSError", "ok">>, <<"ValueError", "OSError", "ok">>,
     <<"ok", "ok", "OSError">>}

StyliseAll ==
    \E k \in 1..Cardinality(Images), oc \in BatchOutcomes : stylise_all(k, oc)

\* Parameter operations and renders on a session that has no reference
\* images, with every field and payload of the model.
NextParams ==
    \/ steps < MaxParamOps /\ SetParameter
    \/ steps < MaxParamOps /\ CurrentParameters
    \/ steps < MaxParamOps /\ ApplyFeedback
    \/ steps < MaxParamOps /\ ResetParameters
    \/ steps < MaxParamOps /\ ResetParametersFor
    \/ steps < MaxParamOps /\ StyliseImage

InitParams == Init /\ reference_dir = {}

SpecParams == InitParams /\ [][NextParams]_vars

\* The fingerprint life cycle: every session operation on the fingerprint
\* caches and the directories, with one slider change per image.
Fingerprint == \E e \in ExtractorOutcomes : fingerprint(e)
RefreshFingerprint == \E e \in ExtractorOutcomes : refresh_fingerprint(e)
SetStrength == \E x \in Images : set_parameter(x, "strength", PyInt(150))

AddReferenceFile == \E f \in RefFiles : AddReference(f)
RemoveReferenceFile == \E f \in RefFiles : RemoveReference(f)

Next ==
    \/ steps < MaxSteps /\ Fingerprint
    \/ steps < MaxSteps /\ RefreshFingerprint
    \/ steps < MaxSteps /\ StyliseImage
    \/ steps < MaxSteps /\ has_fingerprint
    \/ steps < MaxSteps /\ cleanup_assets
    \/ steps < MaxSteps /\ SetStrength
    \/ steps < MaxSteps /\ AddReferenceFile
    \/ steps < MaxSteps /\ RemoveReferenceFile

Spec == Init /\ [][Next]_vars

\* Rendering: single renders and batches between the operations that change
\* what a render reads (parameters, fingerprints, files).
FeedbackWarmer ==
    \E x \in Images :
        apply_feedback("warmer", x, [strength_delta |-> 250, saturation_delta |-> -30])

NextRender ==
    \/ steps < MaxRenderOps /\ StyliseImage
    \/ steps < MaxRenderOps /\ StyliseOutsideImage
    \/ steps < MaxRenderOps /\ StyliseAll
    \/ steps < MaxRenderOps /\ SetStrength
    \/ steps < MaxRenderOps /\ FeedbackWarmer
    \/ steps < MaxRenderOps /\ ResetParameters
    \/ steps < MaxRenderOps /\ ResetParametersFor
    \/ steps < MaxRenderOps /\ RefreshFingerprint
    \/ steps < MaxRenderOps /\ cleanup_assets
    \/ steps < MaxRenderOps /\ AddReferenceFile

InitRender == Init /\ reference_dir \subseteq {"r1.jpg"}

SpecRender == InitRender /\ [][NextRender]_vars

\* The session against a replacement of interpret_feedback: what
\* apply_feedback stores of an answer it is handed.
StubParams ==
    {[FilmulatorParameters EXCEPT !["strength"] = PyFloat(250)],
     [FilmulatorParameters EXCEPT !["brightness_shift"] = PyFloat(-300),
                                  !["contrast"] = PyFloat(40)],
     [FilmulatorParameters EXCEPT !["clarity"] = PyFloat(40)]}

StubAnswers == StubParams \X BOOLEAN \X {<<>>, <<"done">>}

ApplyFeedbackWith ==
    \E x \in Images, answer \in StubAnswers : apply_feedback_with("warmer", x, answer)

NextStub ==
    \/ steps < MaxStubOps /\ ApplyFeedbackWith
    \/ steps < MaxStubOps /\ SetStrength
    \/ steps < MaxStubOps /\ CurrentParameters
    \/ steps < MaxStubOps /\ ResetParametersFor

SpecStub == InitParams /\ [][NextStub]_vars

\* Two threads call the session over a reference directory that holds images
\* or none; the statements of their calls interleave.
NextThreads ==
    \/ Begin
    \/ FpCheck
    \/ FpGather
    \/ FpCompute
    \/ FpClear
    \/ FpReturn
    \/ StFallback
    \/ StRender
    \/ FetchParams
    \/ AfInterpret
    \/ AfStore
    \/ SpSetattr

InitThreads == Init /\ reference_dir \in {{}, {"r1.jpg"}}
SpecThreads == InitThreads /\ [][NextThreads]_vars

\* The window over a session: selections, slider changes, the Reset button,
\* the passing of time and the timer's timeout.
NextGui ==
    \/ SelectionChanged
    \/ _slider_changed
    \/ ResetButton
    \/ Tick
    \/ Timeout

SpecGui == InitThreads /\ [][NextGui]_vars

\* The directory listing on its own: files come and go in the reference
\* directory, on either platform, and the directory is listed.
MaxFileOps == 3
DirFiles == RefFiles \cup OtherFiles
files_frame == <<_image_params, heap, _fingerprint, _fallback_fingerprints, input_dir,
                 output_dir, before, progress, threads, gui, extractor, platform,
                 transcriber>>

\* copy_images(paths, reference_dir)
copy_images ==
    \E paths \in SUBSET DirFiles \ {{}} :
        /\ steps < MaxFileOps
        /\ reference_dir' = reference_dir \cup paths
        /\ call' = <<"copy_images", paths>>
        /\ returned' = SortedSeq(paths)
        /\ raised' = "none"
        /\ trace' = <<>>
        /\ steps' = steps + 1
        /\ UNCHANGED files_frame

\* cleanup_files([reference_dir])
cleanup_files ==
    /\ steps < MaxFileOps
    /\ reference_dir' = {}
    /\ call' = <<"cleanup_files">>
    /\ returned' = PyNone
    /\ raised' = "none"
    /\ trace' = <<>>
    /\ steps' = steps + 1
    /\ UNCHANGED files_frame

\* list_images(reference_dir)
ListImages ==
    /\ steps < MaxFileOps
    /\ call' = <<"list_images">>
    /\ returned' = list_images(reference_dir)
    /\ raised' = "none"
    /\ trace' = <<>>
    /\ steps' = steps + 1
    /\ UNCHANGED <<reference_dir, files_frame>>

NextFiles ==
    \/ copy_images
    \/ cleanup_files
    \/ ListImages

InitFiles == InitSession /\ extractor = NoExtractor /\ platform \in Platforms
SpecFiles == InitFiles /\ [][NextFiles]_vars

\* Extractors are constructed over one cache directory, in any state the
\* directory can be found in, and asked for fingerprints.
\* The window with feedback tasks: what SpecGui does, and feedback queued,
\* run on the pool and handled.
NextGuiFeedback ==
    \/ SelectionChanged
    \/ _slider_changed
    \/ ResetButton
    \/ _queue_feedback_application
    \/ FeedbackTaskRun
    \/ _on_feedback_finished
    \/ Tick
    \/ Timeout

SpecGuiFeedback == InitThreads /\ [][NextGuiFeedback]_vars

\* Feedback tasks by themselves: images are selected, feedback is queued by
\* the button or by voice, tasks run and their signals are handled.
NextTasks ==
    \/ SelectionChanged
    \/ _queue_feedback_application
    \/ FeedbackTaskRun
    \/ _on_feedback_finished

SpecTasks == InitThreads /\ [][NextTasks]_vars

NextExtractor ==
    \/ Construct
    \/ Compute

InitExtractor ==
    InitSession /\ reference_dir = {} /\ extractor \in ExtractorInits /\ platform = "posix"
SpecExtractor == InitExtractor /\ [][NextExtractor]_vars

-----------------------------------------------------------------------------
(* Properties of the parameter store (checked under SpecParams)            *)

\* The record stored for an image, all-neutral while none is stored.
ParamsOf(store, x) == IF x \in DOMAIN store THEN store[x] ELSE FilmulatorParameters

Clamped(v) == IF v > 100 THEN 100 ELSE IF v < -100 THEN -100 ELSE v

\* C1: set_parameter on any of the nine sliders with a number v never raises
\* and leaves min(100, max(-100, v)) in that field: 150 becomes 100, -500
\* becomes -100, a value inside the range is kept.
C1_SetParameterClamps ==
    (call[1] = "set_parameter" /\ call[3] \in SliderNames /\ IsNumber(call[4]))
        => /\ raised = "none"
           /\ call[2] \in DOMAIN _image_params
           /\ StoredParams[call[2]][call[3]].v = Clamped(call[4].v)
           /\ (call[4].v = 150 => StoredParams[call[2]][call[3]].v = 100)
           /\ (call[4].v = -500 => StoredParams[call[2]][call[3]].v = -100)
           /\ (call[4].v \in -100..100 => StoredParams[call[2]][call[3]].v = call[4].v)

C1_Witness ==
    /\ call[1] = "set_parameter"
    /\ call[3] = "clarity"
    /\ call[4].v = -500
    /\ StoredParams[call[2]]["clarity"].v = -100
    /\ steps = 2

\* C2: set_parameter on rotation_degrees with 0 <= r < 360 stores r itself
\* (the slider clamp is not applied to the rotation).
C2_RotationStoredAsGiven ==
    (call[1] = "set_parameter" /\ call[3] = "rotation_degrees"
        /\ call[4].v >= 0 /\ call[4].v < 360)
        => StoredParams[call[2]]["rotation_degrees"].v = call[4].v

\* C3: every stored Parameters record has its nine sliders within [-100,100].
C3_SlidersInRange ==
    \A x \in DOMAIN _image_params : \A f \in SliderNames :
        StoredParams[x][f].v >= -100 /\ StoredParams[x][f].v <= 100

C3_Witness ==
    /\ call[1] = "apply_feedback"
    /\ trace # <<>>
    /\ "brightness_delta" \in DOMAIN trace[1][3]
    /\ ParamsOf(before.params, call[2])["brightness_shift"].v = -100
    /\ StoredParams[call[2]]["brightness_shift"].v = -100
    /\ StoredParams[call[2]]["shadow_lift"].v = 15

C5_FeedbackRotationWraps ==
    (call[1] = "apply_feedback" /\ trace # <<>>
        /\ "rotation" \in DOMAIN trace[1][3] /\ "reset" \notin DOMAIN trace[1][3])
        => LET r == ParamsOf(before.params, call[2])["rotation_degrees"].v
               d == trace[1][3]["rotation"]
               stored == StoredParams[call[2]]["rotation_degrees"].v
           IN  /\ stored = (r + d) % 360
               /\ stored \in 0..359
               /\ (r = 350 /\ d = 30 => stored = 20)

C5_Witness ==
    /\ call[1] = "apply_feedback"
    /\ trace # <<>>
    /\ "rotation" \in DOMAIN trace[1][3]
    /\ trace[1][3]["rotation"] = 30
    /\ ParamsOf(before.params, call[2])["rotation_degrees"].v = 350
    /\ StoredParams[call[2]]["rotation_degrees"].v = 20

\* C6: set_parameter, apply_feedback and reset_parameters_for on image A leave
\* the stored Parameters of every other image B as they were (a B without a
\* record still has none), and no two images share one Parameters object.
C6_ImagesIsolated ==
    /\ \A a, b \in DOMAIN _image_params : a # b => _image_params[a] # _image_params[b]
    /\ call[1] \in {"set_parameter", "apply_feedback", "reset_parameters_for"}
        => \A b \in Images \ {call[2]} :
              /\ b \in DOMAIN _image_params <=> b \in DOMAIN before.params
              /\ b \in DOMAIN _image_params => StoredParams[b] = before.params[b]

C6_Witness ==
    /\ call[1] = "set_parameter"
    /\ call[2] = "a.jpg"
    /\ "b.png" \in DOMAIN before.params
    /\ "a.jpg" \notin DOMAIN before.params
    /\ before.params["b.png"] # FilmulatorParameters
    /\ StoredParams["a.jpg"] # FilmulatorParameters
    /\ StoredParams["b.png"] = before.params["b.png"]

\* The fields a payload can write.
PayloadFields(llm_result) ==
    IF "reset" \in DOMAIN llm_result /\ llm_result["reset"] THEN {}
    ELSE {a \in DeltaAttrs : DeltaKey(a) \in DOMAIN llm_result}
            \cup ({"grain_strength", "grayscale", "flip_horizontal", "flip_vertical"}
                    \cap DOMAIN llm_result)
            \cup (IF "rotation" \in DOMAIN llm_result THEN {"rotation_degrees"} ELSE {})

EngineCalls == {i \in DOMAIN trace : trace[i][1] = "apply_style_to_path"}

\* C7: the first access to the Parameters of an image not seen before yields
\* all-neutral defaults whatever was done to other images: current_parameters
\* returns them, stylise_image renders with them, set_parameter and
\* apply_feedback change only the fields they write; a later access returns
\* the record stored for the image.
C7_FirstAccessNeutral ==
    /\ (call[1] = "current_parameters" /\ call[2] \notin DOMAIN before.params)
        => returned = FilmulatorParameters /\ StoredParams[call[2]] = FilmulatorParameters
    /\ (call[1] = "current_parameters" /\ call[2] \in DOMAIN before.params)
        => returned = before.params[call[2]] /\ StoredParams[call[2]] = returned
    /\ (call[1] = "set_parameter" /\ call[2] \notin DOMAIN before.params)
        => \A f \in FieldNames \ {call[3]} :
              StoredParams[call[2]][f] = FilmulatorParameters[f]
    /\ (call[1] = "apply_feedback" /\ call[2] \notin DOMAIN before.params)
        => \A f \in FieldNames \ (IF trace = <<>> THEN {} ELSE PayloadFields(trace[1][3])) :
              StoredParams[call[2]][f] = FilmulatorParameters[f]
    /\ (call[1] = "stylise_image" /\ call[2] \notin DOMAIN before.params)
        => /\ \A i \in EngineCalls : trace[i][5] = FilmulatorParameters
           /\ call[2] \in DOMAIN _image_params
                 => StoredParams[call[2]] = FilmulatorParameters
    /\ (call[1] = "stylise_image" /\ call[2] \in DOMAIN before.params)
        => \A i \in EngineCalls : trace[i][5] = before.params[call[2]]

C7_Witness ==
    /\ call[1] = "stylise_image"
    /\ call[2] = "b.png"
    /\ raised = "none"
    /\ "b.png" \notin DOMAIN before.params
    /\ "a.jpg" \in DOMAIN before.params
    /\ before.params["a.jpg"] # FilmulatorParameters
    /\ output_dir["b.png"].params = FilmulatorParameters

\* C16: apply_feedback(text, x) stores a new Parameters object for x exactly
\* when the interpreter reports changed = true, and then it is the
\* interpreter's result; when changed is false the object stored for x is the
\* one stored before, with every field as it was (all-neutral if x had no
\* record), and the call returns changed = false.
C16_CommitIffChanged ==
    call[1] = "apply_feedback"
        => LET x == call[2]
               old == ParamsOf(before.params, x)
               answer == interpret_feedback(call[3], old,
                                            IF trace = <<>> THEN <<>> ELSE trace[1][3])
           IN  /\ returned.changed = answer.changed
               /\ returned.changed
                    => /\ StoredParams[x] = answer.params
                       /\ x \in DOMAIN before.refs => _image_params[x] # before.refs[x]
               /\ ~returned.changed
                    => /\ StoredParams[x] = old
                       /\ x \in DOMAIN before.refs => _image_params[x] = before.refs[x]

C16_Witness ==
    /\ call[1] = "apply_feedback"
    /\ returned.changed
    /\ call[2] \in DOMAIN before.refs
    /\ _image_params[call[2]] # before.refs[call[2]]
    /\ StoredParams[call[2]] # before.params[call[2]]
    /\ before.params[call[2]] # FilmulatorParameters

-----------------------------------------------------------------------------
(* apply_feedback against any interpreter (checked under SpecStub)         *)

\* C17: whatever Parameters the interpreter returns with changed = true, the
\* Parameters that apply_feedback stores have all nine sliders within
\* [-100,100].
C17_FeedbackReclamped ==
    call[1] = "apply_feedback"
        => \A f \in SliderNames :
              /\ StoredParams[call[2]][f].v >= -100
              /\ StoredParams[call[2]][f].v <= 100

-----------------------------------------------------------------------------
(* Properties of the fingerprint caches (checked under Spec)               *)

\* C8: once a primary fingerprint is cached, fingerprint() returns it and
\* stylise_image renders with it, without running the extractor on the
\* reference set, whatever the reference directory holds by then; only
\* refresh_fingerprint() runs the extractor on the reference set again.
C8_PrimaryFingerprintMemoized ==
    before.fingerprint # NoFingerprint
        => /\ call[1] = "fingerprint"
                => /\ raised = "none"
                   /\ returned = before.fingerprint
                   /\ trace = <<>>
                   /\ _fingerprint = before.fingerprint
           /\ call[1] = "stylise_image"
                => /\ \A i \in DOMAIN trace : trace[i][1] # "compute"
                   /\ \A i \in EngineCalls : trace[i][4] = before.fingerprint
                   /\ _fingerprint = before.fingerprint
           /\ (\E i \in DOMAIN trace : trace[i][1] = "compute")
                => call[1] = "refresh_fingerprint"
           /\ _fingerprint # before.fingerprint => call[1] = "refresh_fingerprint"

C8_Witness ==
    /\ call[1] = "stylise_image"
    /\ raised = "none"
    /\ before.fingerprint # NoFingerprint
    /\ list_images(reference_dir) # before.fingerprint.sources
    /\ list_images(reference_dir) # <<>>
    /\ output_dir[Name(call[2])].fingerprint = before.fingerprint

\* C9: while a primary fingerprint is cached the fallback map is empty.
C9_NoFallbackBesidePrimary ==
    _fingerprint # NoFingerprint => DOMAIN _fallback_fingerprints = {}

C9_Witness ==
    /\ call[1] = "fingerprint"
    /\ DOMAIN before.fallbacks # {}
    /\ before.fingerprint = NoFingerprint
    /\ _fingerprint # NoFingerprint
    /\ DOMAIN _fallback_fingerprints = {}

\* C10: fingerprint() without a cached primary fingerprint, and
\* refresh_fingerprint() in any state, raise when the reference directory
\* lists no image; the extractor is not invoked and nothing is returned or
\* cached.
C10_EmptyReferenceSetFails ==
    (list_images(reference_dir) = <<>>
        /\ \/ call[1] = "refresh_fingerprint"
           \/ call[1] = "fingerprint" /\ before.fingerprint = NoFingerprint)
        => /\ raised # "none"
           /\ trace = <<>>
           /\ _fingerprint = before.fingerprint
           /\ _fallback_fingerprints = before.fallbacks
           /\ call[1] = "fingerprint" => returned = NoFingerprint

C10_Witness ==
    /\ call[1] = "refresh_fingerprint"
    /\ list_images(reference_dir) = <<>>
    /\ raised = "ValueError"
    /\ before.fingerprint # NoFingerprint
    /\ _fingerprint = before.fingerprint

\* C18: has_fingerprint() returns true exactly when a primary fingerprint is
\* cached or the fallback map has an entry; it calls no collaborator and
\* leaves the session and the files as they were.
C18_HasFingerprintPure ==
    call[1] = "has_fingerprint"
        => /\ raised = "none"
           /\ returned = (before.fingerprint # NoFingerprint
                            \/ DOMAIN before.fallbacks # {})
           /\ trace = <<>>
           /\ Snapshot = before

C18_Witness ==
    /\ call[1] = "has_fingerprint"
    /\ returned = TRUE
    /\ _fingerprint = NoFingerprint
    /\ DOMAIN _fallback_fingerprints # {}
    /\ list_images(reference_dir) # <<>>

\* C19: a refresh_fingerprint() call that returns has run the extractor
\* exactly once, on the reference images listed at the call, also when a
\* primary fingerprint was cached; the cached primary fingerprint is then the
\* result of that run and the fallback map is empty.
C19_RefreshRecomputes ==
    (call[1] = "refresh_fingerprint" /\ raised = "none")
        => /\ trace = << <<"compute", list_images(reference_dir)>> >>
           /\ _fingerprint = compute(list_images(reference_dir))
           /\ _fallback_fingerprints = EmptyMap

C19_Witness ==
    /\ call[1] = "refresh_fingerprint"
    /\ raised = "none"
    /\ before.fingerprint # NoFingerprint
    /\ _fingerprint # before.fingerprint
    /\ _fingerprint.sources = list_images(reference_dir)

-----------------------------------------------------------------------------
(* Properties of rendering (checked under SpecRender)                      *)

ComputeCalls == {i \in DOMAIN trace : trace[i][1] = "compute"}

\* C11: stylise_image(x) with no primary fingerprint cached and no reference
\* image listed does not fail for lack of references (it fails only where a
\* collaborator it called failed); it renders x with a fingerprint computed
\* from x alone and caches that under x; with an entry cached under x it
\* renders with the entry and does not run the extractor.
C11_FallbackComputedOncePerImage ==
    (call[1] = "stylise_image" /\ before.fingerprint = NoFingerprint
        /\ list_images(reference_dir) = <<>>)
        => LET x == call[2]
           IN  /\ raised # "none" => trace # <<>>
               /\ _fingerprint = NoFingerprint
               /\ x \in DOMAIN before.fallbacks
                    => /\ ComputeCalls = {}
                       /\ _fallback_fingerprints = before.fallbacks
                       /\ \A i \in EngineCalls : trace[i][4] = before.fallbacks[x]
               /\ x \notin DOMAIN before.fallbacks
                    => /\ ComputeCalls = {1}
                       /\ trace[1] = <<"compute", <<x>> >>
                       /\ \A i \in EngineCalls :
                             /\ trace[i][4] = compute(<<x>>)
                             /\ x \in DOMAIN _fallback_fingerprints
                             /\ _fallback_fingerprints[x] = compute(<<x>>)
               /\ \A y \in DOMAIN before.fallbacks :
                     /\ y \in DOMAIN _fallback_fingerprints
                     /\ _fallback_fingerprints[y] = before.fallbacks[y]
               /\ raised = "none"
                    => /\ EngineCalls # {}
                       /\ output_dir[Name(x)].fingerprint = _fallback_fingerprints[x]
                       /\ output_dir[Name(x)].fingerprint.sources = <<x>>

C11_Witness ==
    /\ call[1] = "stylise_image"
    /\ raised = "none"
    /\ before.fingerprint = NoFingerprint
    /\ list_images(reference_dir) = <<>>
    /\ call[2] \in DOMAIN before.fallbacks
    /\ ComputeCalls = {}
    /\ output_dir[Name(call[2])].fingerprint = before.fallbacks[call[2]]

\* C12: every stylise_image(x) call hands the engine, and returns, the path
\* output_dir / filename(x); a successful call leaves at that path exactly
\* the render of this call and creates no other file; a failed call leaves
\* the output directory as it was; two different listed inputs have
\* different output paths.
C12_OutputKeyedByFileName ==
    /\ call[1] = "stylise_image"
        => LET x == call[2]
           IN  /\ \A i \in EngineCalls : trace[i][2] = x /\ trace[i][3] = Name(x)
               /\ raised = "none"
                    => /\ returned = Name(x)
                       /\ DOMAIN output_dir = DOMAIN before.outputs \cup {Name(x)}
                       /\ \A i \in EngineCalls :
                             output_dir[Name(x)] = Render(x, trace[i][4], StoredParams[x])
                       /\ \A f \in DOMAIN before.outputs \ {Name(x)} :
                             output_dir[f] = before.outputs[f]
               /\ raised # "none" => output_dir = before.outputs
    /\ \A x, y \in Range(list_images(input_dir)) : x # y => Name(x) # Name(y)

C12_Witness ==
    /\ call[1] = "stylise_image"
    /\ raised = "none"
    /\ Name(call[2]) \in DOMAIN before.outputs
    /\ before.outputs[Name(call[2])].params # StoredParams[call[2]]
    /\ output_dir[Name(call[2])].params = StoredParams[call[2]]
    /\ Cardinality(DOMAIN output_dir) = Cardinality(DOMAIN before.outputs)

\* The engine calls of the last operation, in the order they were made.
IsEngineCall(entry) == entry[1] = "apply_style_to_path"
Renders == SelectSeq(trace, IsEngineCall)

\* The stored Parameters of a session value.
ParamsIn(S) == [x \in DOMAIN S.ip |-> S.heap[S.ip[x]]]

C14_BatchFailFast ==
    (call[1] = "stylise_all" /\ \E i \in DOMAIN progress : progress[i].raised # "none")
        => LET listed == list_images(input_dir)
               k == Len(progress)
           IN  /\ raised # "none"
               /\ raised = progress[k].raised
               /\ k <= Len(listed)
               /\ \A i \in 1..k : progress[i].input = listed[i]
               /\ \A i \in 1..(k - 1) : progress[i].raised = "none"
               /\ \A i \in DOMAIN Renders : i <= k /\ Renders[i][2] = listed[i]
               /\ Len(Renders) >= k - 1
               /\ \A i \in 1..(k - 1) :
                     /\ Name(listed[i]) \in DOMAIN output_dir
                     /\ output_dir[Name(listed[i])]
                            = Render(listed[i], Renders[i][4], StoredParams[listed[i]])
               /\ \A i \in k..Len(listed) :
                     /\ Name(listed[i]) \in DOMAIN output_dir
                            <=> Name(listed[i]) \in DOMAIN before.outputs
                     /\ Name(listed[i]) \in DOMAIN output_dir
                            => output_dir[Name(listed[i])] = before.outputs[Name(listed[i])]

C14_Witness ==
    /\ call[1] = "stylise_all"
    /\ raised = "OSError"
    /\ Len(progress) = 2
    /\ progress[1].raised = "none"
    /\ progress[2].raised = "OSError"
    /\ "a.jpg" \in DOMAIN output_dir
    /\ "a.jpg" \in DOMAIN before.outputs
    /\ output_dir["a.jpg"] # before.outputs["a.jpg"]
    /\ "b.png" \notin DOMAIN output_dir

C20_NoRenderOutsideStylise ==
    /\ call[1] \in {"set_parameter", "apply_feedback", "reset_parameters",
                    "reset_parameters_for", "refresh_fingerprint"}
        => /\ EngineCalls = {}
           /\ output_dir = before.outputs
    /\ (\E f \in DOMAIN output_dir :
            f \notin DOMAIN before.outputs \/ output_dir[f] # before.outputs[f])
        => call[1] \in {"stylise_image", "stylise_all"}

C20_Witness ==
    /\ call[1] = "refresh_fingerprint"
    /\ raised = "none"
    /\ before.fingerprint # NoFingerprint
    /\ \E f \in DOMAIN output_dir :
          /\ output_dir[f].fingerprint # _fingerprint
          /\ output_dir[f].params # StoredParams[output_dir[f].input]
    /\ output_dir = before.outputs

-----------------------------------------------------------------------------
(* Claims checked under SpecThreads                                        *)

\* The threads inside extractor.compute(references) at session.py line 62.
Computing == {t \in Threads : threads[t].pc = "fp_compute"}

\* C21: while no primary fingerprint is cached, concurrent callers of
\* fingerprint() and stylise_image share one computation: at most one
\* extractor computation over the reference set is in progress at any time.
C21_OneComputationInFlight == Cardinality(Computing) <= 1

\* The Parameters a call leaves when it runs alone on Parameters p.
Effect(c, p) ==
    IF c[1] = "apply_feedback"
    THEN LET res == interpret_feedback(c[3], p, c[4])
         IN  IF res.changed THEN res.params ELSE p
    ELSE SetAttr(p, c[3], ClampedValue(c[3], c[4]))

\* C22: two apply_feedback calls, or an apply_feedback and a set_parameter
\* call, on the same image lose no update: once both have finished, the
\* stored Parameters are what the two calls give one after the other, in one
\* order or the other.
C22_NoLostUpdate ==
    \A t, u \in Threads :
        ( /\ t # u
          /\ steps = Cardinality(Threads)
          /\ threads[t].pc = "done" /\ threads[u].pc = "done"
          /\ threads[t].op[1] = "apply_feedback"
          /\ threads[u].op[1] \in {"apply_feedback", "set_parameter"}
          /\ threads[t].op[2] = threads[u].op[2] )
        => StoredParams[threads[t].op[2]]
               \in { Effect(threads[u].op, Effect(threads[t].op, FilmulatorParameters)),
                     Effect(threads[t].op, Effect(threads[u].op, FilmulatorParameters)) }

-----------------------------------------------------------------------------
(* Claims checked under SpecGui                                            *)

\* C23: of a burst of slider changes on the selected image, each less than
\* the debounce window after the one before and each with a fingerprint
\* available, nothing is rendered while the timer is pending, and what the
\* timeout renders is that image, once, a full window after the last change
\* and with the Parameters the last change left.
C23_BurstRendersOnceLast ==
    (gui.burst.changes >= 1 /\ gui.burst.armed)
    => /\ gui.restylise_timer # TimerOff => gui.burst.renders = <<>>
       /\ gui.restylise_timer = TimerOff
            => gui.burst.renders = << [input |-> gui.selected,
                                       params |-> gui.burst.left,
                                       waited |-> DebounceWindow] >>

\* A burst of several changes, the last of which differs from the one
\* before, has been rendered.
C23_Witness ==
    /\ gui.burst.changes >= 2
    /\ gui.burst.armed
    /\ Len(gui.burst.renders) = 1
    /\ gui.burst.left.strength = PyFloat(-20)
    /\ gui.burst.left.contrast = PyFloat(10)

-----------------------------------------------------------------------------
(* Claims checked under SpecExtractor                                      *)

\* C24: compute on a sequence (or iterator) that yields no image raises and
\* returns no fingerprint.
C24_EmptyInputFails ==
    (call[1] = "compute" /\ call[3] = <<>>) => (raised # "none" /\ returned = PyNone)

C24_Witness == call[1] = "compute" /\ call[3] = <<>> /\ raised = "ValueError"

\* floor(x * 2^k) for a float32 x of size at most 1.
Fixed(x, k) ==
    IF x.m = 0 THEN 0
    ELSE IF x.e + k >= 0 THEN x.m * Pow2(x.e + k)
    ELSE IF -(x.e + k) > 30 THEN (IF x.m < 0 THEN -1 ELSE 0)
    ELSE x.m \div Pow2(-(x.e + k))

RECURSIVE SumTo(_, _)
SumTo(ns, n) == IF n = 0 THEN 0 ELSE SumTo(ns, n - 1) + ns[n]

IsF32(r) == DOMAIN r = {"m", "e"}

\* r is the arithmetic mean of xs: in units of 2^-12, n times r and the sum
\* of xs differ by no more than the n roundings-down.
IsMeanOf(r, xs) ==
    /\ IsF32(r)
    /\ Abs(Len(xs) * Fixed(r, 12) - SumTo([i \in 1..Len(xs) |-> Fixed(xs[i], 12)], Len(xs)))
           <= Len(xs)

\* r is the standard deviation of xs (the root of the mean squared deviation
\* from their mean): in units of 2^-24, n^2 times r^2 and n * sum(x^2) -
\* sum(x)^2 differ by no more than rounding xs down to units of 2^-12 and r^2
\* to float32 can make them differ.
IsStdOf(r, xs) ==
    /\ DOMAIN r = {"root_of"}
    /\ LET n == Len(xs)
           ks == [i \in 1..n |-> Fixed(xs[i], 12)]
           squares == SumTo([i \in 1..n |-> ks[i] * ks[i]], n)
       IN  Abs(n * n * Fixed(r.root_of, 24) - (n * squares - SumTo(ks, n) * SumTo(ks, n)))
               <= n * n * 4200

\* C25: for a non-empty sequence of images compute returns clip_mean = the
\* mean of the embeddings, clip_std = their standard deviation across the
\* images, color_mean = the mean of the channel means and color_std = the
\* mean of the channel standard deviations.
C25_AggregatesAsSpecified ==
    (call[1] = "compute" /\ call[3] # <<>>)
    => /\ raised = "none"
       /\ LET images == call[3]
              n == Len(images)
          IN  /\ IsMeanOf(returned.clip_mean, [i \in 1..n |-> _embed(images[i])])
              /\ IsStdOf(returned.clip_std, [i \in 1..n |-> _embed(images[i])])
              /\ IsMeanOf(returned.color_mean, [i \in 1..n |-> _color_stats(images[i]).mean])
              /\ IsMeanOf(returned.color_std, [i \in 1..n |-> _color_stats(images[i]).std])

\* Images whose channel means deviate by another amount than their channel
\* deviations average to.
C25_Witness ==
    /\ call = <<"compute", 1, <<"p1.jpg", "p2.jpg", "p1.jpg">> >>
    /\ raised = "none"
    /\ ~IsStdOf(FSqrt(FMul(returned.color_std, returned.color_std)),
                [i \in 1..3 |-> _color_stats(call[3][i]).mean])

\* `images` yields one image, n times over.
Copies(images) == images # <<>> /\ \A i \in DOMAIN images : images[i] = images[1]
\* What the image contributes by itself.
Own(path) == [clip_mean |-> _embed(path), clip_std |-> FSqrt(FZero),
              color_mean |-> _color_stats(path).mean,
              color_std |-> _color_stats(path).std]

\* C26 as stated: the fingerprint of N copies of one image has that image's
\* own embedding, channel mean and channel deviation, and clip_std zero, for
\* every N >= 1.
C26_CopiesAggregateExactly ==
    (call[1] = "compute" /\ Copies(call[3])) => returned = Own(call[3][1])

\* |r - x| <= n * 2^-22 * |x|
Near(r, x, n) ==
    /\ IsF32(r)
    /\ Abs(r.e - x.e) <= 1
    /\ LET e0 == IF r.e < x.e THEN r.e ELSE x.e
           R == r.m * Pow2(r.e - e0)
           X == x.m * Pow2(x.e - e0)
       IN  Abs(R - X) < 256 /\ Abs(R - X) * Pow2(22) <= n * Abs(X)

\* r is a root, of a number that is at most (n * 2^-23 * |x|)^2.
RootNear(r, x, n) ==
    /\ DOMAIN r = {"root_of"}
    /\ \/ r.root_of.m = 0
       \/ LET v == r.root_of
              t == v.e + 22 - 2 * x.e
              h == Abs(x.m) \div 4096 + 1
          IN  /\ t <= 6
              /\ (IF t >= 0 THEN v.m * Pow2(t)
                  ELSE IF t < -30 THEN 0 ELSE v.m \div Pow2(-t)) <= n * n * h * h

\* C26, amended: for N = 1 and N = 2 the fingerprint of N copies equals the
\* image's own; for every N it agrees with it within float32 rounding: the
\* means within N * 2^-22 of the image's values, relative to them, and
\* clip_std within that of zero.
C26_CopiesAggregateWithinRounding ==
    (call[1] = "compute" /\ Copies(call[3]))
    => LET n == Len(call[3])
           own == Own(call[3][1])
       IN  /\ raised = "none"
           /\ n <= 2 => returned = own
           /\ Near(returned.clip_mean, own.clip_mean, n)
           /\ Near(returned.color_mean, own.color_mean, n)
           /\ Near(returned.color_std, own.color_std, n)
           /\ RootNear(returned.clip_std, own.clip_mean, n)

\* Three copies whose mean is another float32 than the image's own value.
C26_Witness ==
    /\ call[1] = "compute"
    /\ Copies(call[3])
    /\ Len(call[3]) = 3
    /\ returned.clip_mean # _embed(call[3][1])
    /\ returned.clip_std # FSqrt(FZero)

\* C27: the provider is initialised (weights resolved, model created) once
\* per instance, by the constructor: every instance has had its model
\* created once, a successful construction ends with that creation, and a
\* compute call resolves, downloads and creates nothing.
C27_ProviderInitialisedOnce ==
    /\ \A i \in DOMAIN extractor.instances :
           /\ extractor.instances[i].creations = 1
           /\ extractor.instances[i].resolutions <= 2
    /\ call[1] = "compute" => (Resolutions(trace) = <<>> /\ Creations(trace) = <<>>)
    /\ (Len(call) = 2 /\ raised = "none")
           => /\ Len(Creations(trace)) = 1
              /\ trace[Len(trace)][1] = "create_model_and_transforms"

\* An instance that has computed more than once.
C27_Witness ==
    /\ call[1] = "compute"
    /\ call[3] # <<>>
    /\ extractor.instances[call[2]].computes >= 2
    /\ extractor.instances[call[2]].resolutions = 2

\* The snapshot_download calls of the last construction that went online.
Online(tr) == SelectSeq(Resolutions(tr), LAMBDA c : c[2] = "online")

\* C28: a construction that resolves the weights asks for the local
\* snapshot first, goes online only if that snapshot is missing or lacks a
\* required file, and then once; after a construction has resolved them,
\* every later resolution is answered locally, without going online.
C28_LocalFirstOnlineOnce ==
    Len(call) = 2
    => /\ Resolutions(trace) # <<>> => Resolutions(trace)[1][2] = "local_files_only"
       /\ Online(trace) # <<>>
              => ~(extractor.prior.cache.snapshot
                     /\ _has_required_files(extractor.prior.cache.files))
       /\ Len(Online(trace)) <= 1
       /\ (extractor.prior.resolved /\ Resolutions(trace) # <<>>)
              => /\ Online(trace) = <<>>
                 /\ raised # "RuntimeError"
                 /\ trace[Len(trace)] = <<"create_model_and_transforms",
                                          "local-dir:snapshot", "None">>

\* A construction after the weights were fetched into a cache that lacked
\* them: it is answered by the local snapshot.
C28_Witness ==
    /\ call = <<"__init__", TRUE>>
    /\ raised = "none"
    /\ extractor.prior.resolved
    /\ Len(extractor.instances) = 2
    /\ extractor.instances[1].resolutions = 2
    /\ Resolutions(trace) = <<LocalAttempt(extractor.cache)>>

-----------------------------------------------------------------------------
(* Claims checked under SpecFiles                                          *)

\* The extensions list_images is to accept, whatever the case of their letters.
ImageExtensions == {".jpg", ".jpeg", ".png", ".bmp"}

\* C29: list_images(directory) returns exactly the files of the directory
\* whose extension is jpg, jpeg, png or bmp when letter case is ignored,
\* each once, in ascending order (and so the same list on every call while
\* the directory is unchanged).
C29_ListsEveryImageOnce ==
    call = <<"list_images">>
    => returned = SortedSeq({f \in reference_dir : Lower(Suffix(f)) \in ImageExtensions})

-----------------------------------------------------------------------------
(* Claims checked under SpecParams: the resets                             *)

\* Nine sliders 0, the three booleans false, rotation 0.
AllNeutral(params) ==
    /\ \A f \in SliderNames : params[f].v = 0
    /\ \A f \in BoolNames : params[f] = PyBool(FALSE)
    /\ params["rotation_degrees"] = PyInt(0)

\* C30: after reset_parameters_for(x) the Parameters of x equal a fresh
\* all-neutral default in every field; after reset_parameters() the
\* Parameters of every image, with or without a record, equal that default.
C30_ResetsRestoreDefaults ==
    /\ call[1] = "reset_parameters_for"
           => /\ call[2] \in DOMAIN _image_params
              /\ StoredParams[call[2]] = FilmulatorParameters
              /\ AllNeutral(StoredParams[call[2]])
    /\ call = <<"reset_parameters">>
           => \A x \in Images :
                  /\ ParamsOf(StoredParams, x) = FilmulatorParameters
                  /\ AllNeutral(ParamsOf(StoredParams, x))

\* reset_parameters() with one image whose record had a flag or a rotation
\* set, and one image that has no record.
C30_Witness ==
    /\ call = <<"reset_parameters">>
    /\ \E x \in DOMAIN before.params :
           \/ before.params[x]["rotation_degrees"] # PyInt(0)
           \/ \E f \in BoolNames : before.params[x][f] # PyBool(FALSE)
    /\ \E x \in Images : x \notin DOMAIN _image_params

-----------------------------------------------------------------------------
(* Claims checked under Spec: failures of the extractor                    *)

\* The last operation ran extractor.compute on the reference set and the
\* extractor failed: fingerprint() and stylise_image cache the result of a
\* computation that succeeds, refresh_fingerprint returns after one.
PrimaryComputationFailed ==
    /\ trace # <<>>
    /\ trace[1] = <<"compute", list_images(reference_dir)>>
    /\ list_images(reference_dir) # <<>>
    /\ IF call = <<"refresh_fingerprint">> THEN raised # "none"
       ELSE before.fingerprint = NoFingerprint /\ _fingerprint = NoFingerprint

\* The last operation, a stylise_image call, ran extractor.compute on its
\* input image alone and the extractor failed: no render follows.
FallbackComputationFailed ==
    /\ call[1] = "stylise_image"
    /\ trace # <<>>
    /\ trace[Len(trace)] = <<"compute", <<call[2]>> >>
    /\ raised # "none"

\* C31: when the extractor fails while a primary or a fallback fingerprint
\* is computed, inside fingerprint(), refresh_fingerprint() or
\* stylise_image, the failure reaches the caller of that operation, and the
\* cached primary fingerprint, the fallback entries and the Parameters of
\* every image are as they were before the call.
C31_ExtractorFailurePropagates ==
    (PrimaryComputationFailed \/ FallbackComputationFailed)
    => /\ raised # "none"
       /\ _fingerprint = before.fingerprint
       /\ _fallback_fingerprints = before.fallbacks
       /\ StoredParams = before.params

-----------------------------------------------------------------------------
(* Claims checked under Spec: successive renders                           *)

\* The apply_style_to_path call of a stylise_image call that returned: the
\* paths, the fingerprint and the parameter values handed to the engine.
EngineCall(tr) == tr[Len(tr)]

\* The extractor answers a computation over the unchanged reference set in
\* the second call as it did in the first (it does not fail on the files
\* once and succeed on them the next time).
ExtractorAnswersAlike == ~(PrimaryComputationFailed /\ _fingerprint' # NoFingerprint)

-----------------------------------------------------------------------------
(* Claims checked under SpecParams: boolean fields                         *)

\* C34: set_parameter(image, name, b) for a boolean field name and a
\* boolean b stores b itself: a bool, not a number, and not a clamped one.
C34_BooleanStoredAsGiven ==
    (call[1] = "set_parameter" /\ call[3] \in BoolNames /\ call[4].t = "bool")
    => StoredParams[call[2]][call[3]] = call[4]

-----------------------------------------------------------------------------
(* Claims checked under SpecGuiFeedback and SpecTasks                      *)

\* C35: after the window's Reset Parameters action on the selected image,
\* that image's stored Parameters equal a fresh all-neutral default in every
\* field, the three booleans and the rotation included.
C35_GuiResetRestoresDefaults ==
    call = <<"reset_parameters">>
    => /\ gui.selected \in DOMAIN _image_params
       /\ StoredParams[gui.selected] = FilmulatorParameters

\* C36: a pending re-render of an image is given up only for a later
\* request for the same image, so a slider change that was taken up is
\* followed by a render of its image: once no re-render is pending any more
\* (the timer is not running), no image is left with a change that no
\* render of it has followed.
C36_PendingRenderNotCancelled == gui.restylise_timer = TimerOff => gui.owed = {}

\* The tasks whose `finished` signal has not been handled.
Unhandled == {i \in DOMAIN gui.tasks : gui.tasks[i].handled = 0}

\* C39: _active_feedback_jobs is never negative and equals the number of
\* tasks started whose finished signal has not been handled yet; the Apply
\* Feedback button is enabled exactly when it is 0; a task that ran has
\* emitted finished once, whether apply_feedback returned or raised, and
\* no signal is handled twice, so the counter is 0 once every task started
\* has run and been handled.
C39_JobsCounterExact ==
    /\ gui._active_feedback_jobs >= 0
    /\ gui._active_feedback_jobs = Cardinality(Unhandled)
    /\ gui.apply_button <=> gui._active_feedback_jobs = 0
    /\ \A i \in DOMAIN gui.tasks :
           /\ Len(gui.tasks[i].emitted) = gui.tasks[i].ran
           /\ gui.tasks[i].handled <= Len(gui.tasks[i].emitted)
    /\ (\A i \in DOMAIN gui.tasks : gui.tasks[i].ran = 1 /\ gui.tasks[i].handled = 1)
           => gui._active_feedback_jobs = 0 /\ gui.apply_button

\* Two tasks were started (the second by voice, the button being disabled),
\* one raised and one returned, and both signals have been handled.
C39_Witness ==
    /\ Len(gui.tasks) = 2
    /\ \A i \in DOMAIN gui.tasks : gui.tasks[i].handled = 1
    /\ gui.tasks[1].emitted[1][1] # gui.tasks[2].emitted[1][1]
    /\ \E i \in DOMAIN gui.tasks : gui.tasks[i].emitted[1] = <<FALSE, <<"error">> >>
    /\ gui._active_feedback_jobs = 0

-----------------------------------------------------------------------------
(* Claims checked under SpecParams: the reset key of a payload             *)

\* The payload without its reset key.
WithoutReset(llm_result) == [k \in DOMAIN llm_result \ {"reset"} |-> llm_result[k]]

\* C37: when the interpreter's payload has reset = true, the Parameters
\* that apply_feedback commits are the all-neutral defaults in every field,
\* whatever the previous Parameters were and whatever other keys the payload
\* has; with reset = false the call commits and returns what it does for the
\* same payload without the key.
C37_ResetOverridesPayload ==
    (call[1] = "apply_feedback" /\ trace # <<>> /\ "reset" \in DOMAIN trace[1][3])
    => IF trace[1][3]["reset"]
       THEN /\ returned.changed
            /\ call[2] \in DOMAIN _image_params
            /\ StoredParams[call[2]] = FilmulatorParameters
       ELSE LET res == interpret_feedback(call[3], ParamsOf(before.params, call[2]),
                                          WithoutReset(trace[1][3]))
            IN  /\ returned.changed = res.changed
                /\ ParamsOf(StoredParams, call[2]) = res.params

\* A reset that came with a delta and a rotation, on an image that was
\* rotated and had a slider or a boolean away from its default.
C37_Witness ==
    /\ call[1] = "apply_feedback"
    /\ trace # <<>>
    /\ DOMAIN trace[1][3] = {"reset", "strength_delta", "rotation"}
    /\ trace[1][3]["reset"]
    /\ ParamsOf(before.params, call[2]) # FilmulatorParameters
    /\ StoredParams[call[2]] = FilmulatorParameters

-----------------------------------------------------------------------------
(* src/src/llm_adapter.py: from the transport's output to the payload      *)

MaxInterpreterOps == 2

\* The values of the JSON text, by what bool(), int() and float() make of
\* them: a finite number, true or false, a text that spells no number, and
\* NaN and Infinity, which json.loads reads (1e999 is read as Infinity).
JsonNumber(n) == [t |-> "number", v |-> n]
JsonBool(b) == [t |-> "bool", v |-> IF b THEN 1 ELSE 0]
JsonText == [t |-> "text", v |-> 0]
JsonNaN == [t |-> "nan", v |-> 0]
JsonInfinity == [t |-> "inf", v |-> 0]

BoolKeys == {"grayscale", "flip_horizontal", "flip_vertical", "reset"}
AllowedKeys == ChangeKeys \cup {"reset"}

\* What int(value) raises: ValueError for a text and for NaN, OverflowError
\* for an infinity.  float(value) raises ValueError for a text only.
IntRaises(value) ==
    CASE value.t \in {"number", "bool"} -> "none"
      [] value.t \in {"text", "nan"} -> "ValueError"
      [] value.t = "inf" -> "OverflowError"
FloatRaises(value) == IF value.t = "text" THEN "ValueError" ELSE "none"

\* The exception a key's conversion ends with ("none": it is converted).
ConversionRaises(key, value) ==
    IF key \in BoolKeys THEN "none"
    ELSE IF key = "rotation" THEN IntRaises(value)
    ELSE FloatRaises(value)

\* _normalize_parameter_update(data): keys that are not allowed are passed
\* over, and so are those whose conversion raises TypeError or ValueError;
\* any other exception leaves the function.  The sliders of the model hold
\* finite numbers, so the outputs below carry NaN and Infinity under
\* rotation only.
_normalize_parameter_update(data) ==
    LET known == DOMAIN data \cap AllowedKeys
        escaping == {k \in known : ConversionRaises(k, data[k]) = "OverflowError"}
        kept == {k \in known : ConversionRaises(k, data[k]) = "none"}
    IN  IF escaping # {}
        THEN [raised |-> "OverflowError", value |-> <<>>]
        ELSE [raised |-> "none",
              value |-> [k \in kept |->
                            IF k \in BoolKeys THEN data[k].v # 0 ELSE data[k].v] @@ <<>>]

\* The message of an action that has none, or one that is not a string.
NoMessage == "<no str>"

Respond(message) ==
    [type |-> "respond", message |-> message, parameters |-> <<>>]
UpdateParameters(parameters) ==
    [type |-> "update_parameters", message |-> NoMessage, parameters |-> parameters]

\* The loop of _extract_actions over actions[i..]: `normalized` and
\* `messages` as they stand, or the exception that ended the loop.
RECURSIVE ExtractLoop(_, _, _, _)
ExtractLoop(actions, i, normalized, messages) ==
    IF i > Len(actions)
    THEN [raised |-> "none", normalized |-> normalized, messages |-> messages]
    ELSE LET action == actions[i]
         IN  IF action.type = "respond" /\ action.message # NoMessage
             THEN ExtractLoop(actions, i + 1, normalized,
                              Append(messages, Strip(action.message)))
             ELSE IF action.type = "update_parameters"
             THEN LET update == _normalize_parameter_update(action.parameters)
                  IN  IF update.raised # "none"
                      THEN [raised |-> update.raised, normalized |-> normalized,
                            messages |-> messages]
                      ELSE ExtractLoop(actions, i + 1, update.value @@ normalized,
                                       messages)
             ELSE ExtractLoop(actions, i + 1, normalized, messages)

\* _extract_actions(output).  The output is given by how far the function
\* gets with it: no braces, no JSON between them, a JSON object without a
\* list of actions, or the list of its actions.  <<>> models None.
_extract_actions(output) ==
    IF output.kind # "json" THEN [raised |-> "none", value |-> <<>>]
    ELSE LET loop == ExtractLoop(output.actions, 1, <<>>, <<>>)
         IN  IF loop.raised # "none" THEN [raised |-> loop.raised, value |-> <<>>]
             ELSE [raised |-> "none",
                   value |-> IF loop.messages # <<>>
                             THEN [messages |-> loop.messages] @@ loop.normalized
                             ELSE loop.normalized]

\* parse_feedback_with_llm(feedback) when the transport answers `output`:
\* "unavailable" is no ollama on the PATH (the transport is not called),
\* "failed" is _call_ollama returning None.
parse_feedback_with_llm(output) ==
    IF output.kind \in {"unavailable", "failed"}
    THEN [raised |-> "none", value |-> <<>>]
    ELSE _extract_actions(output)

Output(kind) == [kind |-> kind, actions |-> <<>>]
Json(actions) == [kind |-> "json", actions |-> actions]

\* What the interpreter can come back with.
Outputs ==
    { Output("unavailable"), Output("failed"), Output("no_braces"), Output("bad_json"),
      Output("actions_not_list"),
      Json(<<>>),
      Json(<< UpdateParameters(<<>>) >>),
      Json(<< UpdateParameters([exposure |-> JsonNumber(5)]) >>),
      Json(<< UpdateParameters([strength_delta |-> JsonText]) >>),
      Json(<< UpdateParameters([rotation |-> JsonText]) >>),
      Json(<< UpdateParameters([rotation |-> JsonNaN]) >>),
      Json(<< UpdateParameters([rotation |-> JsonInfinity]) >>),
      Json(<< [type |-> "comment", message |-> "no", parameters |-> <<>>] >>),
      Json(<< Respond(NoMessage) >>),
      Json(<< Respond("no") >>),
      Json(<< UpdateParameters([reset |-> JsonBool(FALSE)]) >>),
      Json(<< UpdateParameters([strength_delta |-> JsonNumber(20),
                                rotation |-> JsonNumber(90)]),
              Respond("   "),
              UpdateParameters([rotation |-> JsonNumber(30),
                                grayscale |-> JsonBool(TRUE)]) >>) }

\* apply_feedback(feedback, input_path) when the interpreter comes back with
\* `output`: an exception of parse_feedback_with_llm passes through
\* interpret_feedback and apply_feedback, after _params_for has run.
apply_feedback_on(feedback, input_path, output) ==
    LET pf == _params_for(_image_params, heap, input_path)
        blank == feedback = "" \/ Strip(feedback) = ""
        parsed == parse_feedback_with_llm(output)
        tr == << <<"parse_feedback_with_llm", feedback, output>> >>
    IN  IF ~blank /\ parsed.raised # "none"
        THEN /\ _image_params' = pf.ip
             /\ heap' = pf.heap
             /\ Observe(<<"apply_feedback", input_path, feedback>>, parsed.raised,
                        PyNone, tr)
             /\ UNCHANGED <<_fingerprint, _fallback_fingerprints, reference_dir,
                            input_dir, output_dir>>
        ELSE LET res == interpret_feedback(feedback, pf.heap[pf.ref],
                                           IF blank THEN <<>> ELSE parsed.value)
             IN  StoreFeedback(feedback, input_path, pf, res,
                               IF res.asked THEN tr ELSE <<>>)

ApplyFeedbackOn ==
    \E t \in Feedbacks, x \in Images :
        \E output \in (IF Strip(t) = "" THEN {Output("unavailable")} ELSE Outputs) :
            apply_feedback_on(t, x, output)

SetParameterSome ==
    \E x \in Images : \E nv \in SetParameterInputs("b.png") :
        set_parameter(x, nv[1], nv[2])

\* Feedback with every output of the interpreter, on images whose
\* Parameters are the defaults or have been set.
NextInterpreter ==
    \/ steps < MaxInterpreterOps /\ SetParameterSome
    \/ steps < MaxInterpreterOps /\ ApplyFeedbackOn

SpecInterpreter == InitParams /\ [][NextInterpreter]_vars

-----------------------------------------------------------------------------
(* Claims checked under SpecInterpreter                                    *)

\* The interpreter was not there, failed, or came back with nothing to use:
\* no action of the output carries a message, or a value for a parameter
\* that is a boolean or a finite number.
NoUsablePayload(output) ==
    \/ output.kind # "json"
    \/ \A i \in DOMAIN output.actions :
           LET action == output.actions[i]
           IN  /\ ~(action.type = "respond" /\ action.message # NoMessage)
               /\ action.type = "update_parameters"
                  => \A k \in DOMAIN action.parameters \cap AllowedKeys :
                         /\ k \notin BoolKeys
                         /\ action.parameters[k].t \notin {"number", "bool"}

\* C38: apply_feedback with an empty or whitespace-only text calls neither
\* the interpreter nor its transport; with such a text, and with an
\* interpreter that is unavailable, fails or returns no usable payload, it
\* raises nothing, returns changed = false with an empty message list, and
\* leaves the stored Parameters of every image as they were.
C38_NoPayloadNoChange ==
    call[1] = "apply_feedback"
    => /\ Strip(call[3]) = "" => trace = <<>>
       /\ (Strip(call[3]) = "" \/ NoUsablePayload(trace[1][3]))
          => /\ raised = "none"
             /\ returned = [changed |-> FALSE, messages |-> <<>>]
             /\ \A x \in Images : ParamsOf(StoredParams, x) = ParamsOf(before.params, x)

-----------------------------------------------------------------------------
(* Concurrent transcribe calls on one transcriber                          *)

NextTranscriber ==
    \/ FasterWhisperTranscriber
    \/ \E t \in Callers : transcribe(t)
    \/ \E t \in Callers : CheckModel(t)
    \/ \E t \in Callers : AcquireLock(t)
    \/ \E t \in Callers : CheckUnderLock(t)
    \/ \E t \in Callers : LoadModel(t)
    \/ \E t \in Callers : LoadModelAgain(t)
    \/ \E t \in Callers : StoreModel(t)
    \/ \E t \in Callers : ReturnModel(t)

SpecTranscriber == Init /\ [][NextTranscriber]_vars

\* The calls that ended with a failed load.
FailedLoads ==
    {i \in DOMAIN transcriber.log :
        transcriber.log[i].outcome \in {"TranscriptionError", "RuntimeError"}}

\* C40: under any interleaving of transcribe calls on one transcriber, at
\* most one WhisperModel is constructed successfully, and every call that
\* returns receives that instance, which is the one stored; a load that
\* fails leaves no model stored, and a call that begins after it makes an
\* attempt of its own unless it is handed the model that a load since then
\* constructed.
C40_ModelLoadedOnce ==
    /\ transcriber.built <= 1
    /\ transcriber._model \in {0, transcriber.built}
    /\ \A i \in DOMAIN transcriber.log :
           transcriber.log[i].outcome = "returned"
           => /\ transcriber.log[i].model = 1
              /\ transcriber.log[i].model = transcriber._model
    /\ \A i \in FailedLoads :
           /\ transcriber.log[i].stored = 0
           /\ transcriber.log[i].attempts >= 1
           /\ \A j \in DOMAIN transcriber.log :
                  transcriber.log[j].began >= i
                  => \/ transcriber.log[j].attempts >= 1
                     \/ transcriber.log[j].outcome = "returned"

\* A load failed after both attempts; a call that began after it loaded the
\* model, and a call that ran alongside that one received the same instance
\* without loading anything.
C40_Witness ==
    /\ Len(transcriber.log) = 3
    /\ transcriber.log[1].outcome = "TranscriptionError"
    /\ transcriber.log[1].attempts = 2
    /\ \E j, k \in 2..3 :
           /\ j # k
           /\ transcriber.log[j].began >= 1
           /\ transcriber.log[j].attempts = 1
           /\ transcriber.log[j].outcome = "returned"
           /\ transcriber.log[k].began >= 1
           /\ transcriber.log[k].attempts = 0
           /\ transcriber.log[k].outcome = "returned"
           /\ transcriber.log[k].model = transcriber.log[j].model
           /\ transcriber.log[k].caller # transcriber.log[j].caller

====
